---------------------------- MODULE Spec2Model ----------------------------
(***************************************************************************)
(* win_perf_counters: the PDH query wrapper (performance_query.go) and the *)
(* collector built on it (win_perf_counters.go).                           *)
(*                                                                         *)
(* Spec       one performanceQueryImpl driven by arbitrary calls, with the *)
(*            buffer-growth loops of its four buffer-sized calls run one   *)
(*            iteration per step against a nondeterministic native API.    *)
(* SpecGather one WinPerfCounters driven by Gather calls.                  *)
(***************************************************************************)
EXTENDS Integers, Sequences, FiniteSets, TLC

(***************************************************************************)
(* Bounds of the model.                                                    *)
(***************************************************************************)
\* Native query handles are 1..MaxQueryHandles (0 is "no handle").
MaxQueryHandles == 2
\* Native counter handles are 1..MaxCounterHandles.
MaxCounterHandles == 1
\* uint32 is modelled at this width: TLC's integers are 32-bit signed, so
\* buffer sizes are taken modulo 2^UintBits instead of 2^32.
UintBits == 14
\* The attempt counter of the buffer loop saturates here.
MaxAttempts == 4
\* Native failures injected into one run of the collector.
MaxFaults == 2

(***************************************************************************)
(* Program constants.                                                      *)
(***************************************************************************)
initialBufferSize == 1024

Modulus == 2 ^ UintBits
MaxUint == Modulus - 1
Half == Modulus \div 2

QueryHandles == 1 .. MaxQueryHandles
CounterHandles == 1 .. MaxCounterHandles

\* Errors: "nil", the two sentinels, or the name of a PDH code (a *pdhError).
nil == "nil"
errBufferLimitReached == "buffer limit reached"
errUninitializedQuery == "uninitialized query"
panicIndexOutOfRange == "panic: index out of range"

errorSuccess == "ERROR_SUCCESS"
pdhMoreData == "PDH_MORE_DATA"
pdhInvalidHandle == "PDH_INVALID_HANDLE"
pdhInvalidData == "PDH_INVALID_DATA"
pdhCstatusValidData == "PDH_CSTATUS_VALID_DATA"
pdhCstatusNewData == "PDH_CSTATUS_NEW_DATA"
pdhCstatusInvalidData == "PDH_CSTATUS_INVALID_DATA"
pdhCstatusNoInstance == "PDH_CSTATUS_NO_INSTANCE"
pdhNoData == "PDH_NO_DATA"
pdhCalcNegativeDenominator == "PDH_CALC_NEGATIVE_DENOMINATOR"
pdhCalcNegativeValue == "PDH_CALC_NEGATIVE_VALUE"

\* What a native call may return besides success.
PdhFailures == {pdhInvalidHandle, pdhInvalidData}
PdhRets == {errorSuccess} \cup PdhFailures
PdhBufRets == PdhRets \cup {pdhMoreData}
PdhCStatuses == {pdhCstatusValidData, pdhCstatusNewData, pdhCstatusInvalidData}
IsPdhError(e) ==
  e \in PdhFailures \cup {pdhMoreData} \cup PdhCStatuses
        \cup {pdhCstatusNoInstance, pdhNoData, pdhCalcNegativeDenominator,
              pdhCalcNegativeValue}

\* The sizes the native API may write back into *size.
NativeSizes == {0, 3000, Half, Half + 512}
\* The maxBufferSize a query may be constructed with.
MaxBufferSizes == {initialBufferSize, 4096, MaxUint}

BufferedCalls == {"GetCounterPath", "ExpandWildCardPath",
                  "GetFormattedCounterArrayDouble", "GetRawCounterArray"}

VARIABLES
  query,        \* performanceQueryImpl: [maxBufferSize, queryHandle]
  pdhQueries,   \* native: the open query contexts (handles)
  pdhCounters,  \* native: the counters added, as <<query handle, counter handle>>
  qOp,          \* the last method called on query
  qPre,         \* query.queryHandle when that method was entered
  qErr,         \* the error it returned
  qCalls,       \* the native functions it called, in order
  bufPc,        \* "idle" | "loop": a buffer-sized call is inside its for loop
  bufCall,      \* which buffer-sized call
  buflen,       \* the loop variable
  bufN,         \* native attempts made by this call (saturating at MaxAttempts)
  bufPrev,      \* the previous attempt: [len, size written back], len = 0 for none
  bufValid,     \* the counter handle passed in is one the native side knows
  bufRequired,  \* the size the native side needs for this call
  bufWell       \* every response so far followed the two-phase convention

queryVars == <<query, pdhQueries, pdhCounters, qOp, qPre, qErr, qCalls>>
bufVars == <<bufPc, bufCall, buflen, bufN, bufPrev, bufValid, bufRequired, bufWell>>
wrapperVars == <<queryVars, bufVars>>

\* The collector (WinPerfCounters) and the native state it adds.
VARIABLES
  cfg,           \* the configuration (fixed)
  lastRefreshed, \* [isZero, age]: zero time, or set `age` seconds ago
  hostCounters,  \* computer -> hostCountersInfo
  pdhSamples,    \* native: per open query, its samples so far
  pdhPaths,      \* native: per registered counter handle, the path it was added
                 \* under and the function that added it
  gPc,           \* new (before Init), idle, clean, parse, prime, sample, read
  gTodo,         \* the hosts the running range loop has not visited yet
  gItem,         \* parseConfig: index of the next configured combination
  gRet,          \* what Init or the last Gather returned ("none" before Init)
  gRefreshed,    \* this Gather call completed its refresh phase
  gOld,          \* the query handles the registry held when the refresh began
  gLast,         \* the phase the last Gather call returned from
  tasks,         \* computer -> the goroutine running gatherComputerCounters: where
                 \* it is (pc, i), its grouping map and error, and what its
                 \* reads did: returned a value (read), put a field into the
                 \* map (kept), returned an error (errs)
  emitted,       \* the records handed to m.collect in this Gather call
  hostFailed,    \* the hosts a native call failed on in this Gather call
  faults         \* native failures so far (bounded by MaxFaults)

gatherVars == <<cfg, lastRefreshed, hostCounters, pdhSamples, pdhPaths, gPc, gTodo, gItem, gRet,
                gRefreshed, gOld, gLast, tasks, emitted, hostFailed, faults>>

EmptyMap == [x \in {} |-> 0]

\* The pure functions (path grammar, sanitization), applied to one input.
VARIABLES
  pIn,           \* the arguments of the call
  pOp,           \* "new", or the function that was applied
  pOut           \* what it returned ("none" before the call)

pathVars == <<pIn, pOp, pOut>>

vars == <<wrapperVars, gatherVars, pathVars>>

\* What the collector's steps leave alone: the stand-alone query of Spec and
\* the stand-alone calls of the pure functions.
collectorFrame == <<query, qOp, qPre, qErr, qCalls, bufVars, pathVars>>

\* No stand-alone call of a pure function.
NoPath == pIn = "none" /\ pOp = "none" /\ pOut = "none"

NoPrev == [len |-> 0, size |-> 0]

(***************************************************************************)
(* The native API (pdh.dll), as far as the wrapper sees it.                *)
(***************************************************************************)
\* PdhCloseQuery: frees the context and every counter added to it.
pdhCloseQuery(queries, counters, h, ret) ==
  IF ret = errorSuccess
    THEN [queries |-> queries \ {h}, counters |-> {c \in counters : c[1] # h}]
    ELSE [queries |-> queries, counters |-> counters]

\* The returns PdhCloseQuery can give for handle h.
CloseRets(queries, h) == IF h \in queries THEN PdhRets ELSE PdhFailures

(***************************************************************************)
(* performanceQueryImpl                                                    *)
(***************************************************************************)
\* A Close that forgets its handle whatever pdhCloseQuery returned.
CloseAlwaysForgets(q, queries, counters, ret) ==
  IF q.queryHandle = 0
    THEN [q |-> q, queries |-> queries, counters |-> counters,
          err |-> errUninitializedQuery, calls |-> <<>>]
    ELSE [q |-> [q EXCEPT !.queryHandle = 0],
          queries |-> pdhCloseQuery(queries, counters, q.queryHandle, ret).queries,
          counters |-> pdhCloseQuery(queries, counters, q.queryHandle, ret).counters,
          err |-> IF ret # errorSuccess THEN ret ELSE nil,
          calls |-> <<"pdhCloseQuery">>]

\* Close, given the native return: the new handle, native state and error.
Close(q, queries, counters, ret) ==
  IF q.queryHandle = 0
    THEN [q |-> q, queries |-> queries, counters |-> counters,
          err |-> errUninitializedQuery, calls |-> <<>>]
    ELSE LET n == pdhCloseQuery(queries, counters, q.queryHandle, ret) IN
         IF ret # errorSuccess
           THEN [q |-> q, queries |-> n.queries, counters |-> n.counters,
                 err |-> ret, calls |-> <<"pdhCloseQuery">>]
           ELSE [q |-> [q EXCEPT !.queryHandle = 0], queries |-> n.queries,
                 counters |-> n.counters, err |-> nil, calls |-> <<"pdhCloseQuery">>]

\* Open without the implicit close of the context already held.
OpenWithoutClose(q, queries, counters, closeRet, openRet, h) ==
  IF openRet # errorSuccess
    THEN [q |-> q, queries |-> queries, counters |-> counters,
          err |-> openRet, calls |-> <<"pdhOpenQuery">>, fresh |-> TRUE]
    ELSE [q |-> [q EXCEPT !.queryHandle = h],
          queries |-> queries \cup {h}, counters |-> counters,
          err |-> nil, calls |-> <<"pdhOpenQuery">>, fresh |-> h \notin queries]

\* Open, given the native returns of the implicit close and of pdhOpenQuery
\* and the handle pdhOpenQuery hands out on success (fresh: h is not in use).
Open(q, queries, counters, closeRet, openRet, h) ==
  LET c == IF q.queryHandle # 0
             THEN Close(q, queries, counters, closeRet)
             ELSE [q |-> q, queries |-> queries, counters |-> counters,
                   err |-> nil, calls |-> <<>>]
  IN IF c.err # nil
       THEN [q |-> c.q, queries |-> c.queries, counters |-> c.counters,
             err |-> c.err, calls |-> c.calls, fresh |-> TRUE]
       ELSE IF openRet # errorSuccess
              THEN [q |-> c.q, queries |-> c.queries, counters |-> c.counters,
                    err |-> openRet, calls |-> Append(c.calls, "pdhOpenQuery"),
                    fresh |-> TRUE]
              ELSE [q |-> [c.q EXCEPT !.queryHandle = h],
                    queries |-> c.queries \cup {h}, counters |-> c.counters,
                    err |-> nil, calls |-> Append(c.calls, "pdhOpenQuery"),
                    fresh |-> h \notin c.queries]

\* AddCounterToQuery / AddEnglishCounterToQuery share their shape; fn is the
\* native function, hc the counter handle it hands out on success.
AddCounter(fn, q, queries, counters, ret, hc) ==
  IF q.queryHandle = 0
    THEN [counters |-> counters, err |-> errUninitializedQuery, calls |-> <<>>]
    ELSE IF ret # errorSuccess
           THEN [counters |-> counters, err |-> ret, calls |-> <<fn>>]
           ELSE [counters |-> counters \cup {<<q.queryHandle, hc>>},
                 err |-> nil, calls |-> <<fn>>]

AddCounterToQuery(q, queries, counters, ret, hc) ==
  AddCounter("pdhAddCounter", q, queries, counters, ret, hc)

AddEnglishCounterToQuery(q, queries, counters, ret, hc) ==
  AddCounter("pdhAddEnglishCounter", q, queries, counters, ret, hc)

\* CollectData without the check of the handle.
CollectDataUnchecked(q, ret) ==
  [err |-> IF ret # errorSuccess THEN ret ELSE nil, calls |-> <<"pdhCollectQueryData">>]

\* CollectData / CollectDataWithTime.
CollectData(q, ret) ==
  IF q.queryHandle = 0
    THEN [err |-> errUninitializedQuery, calls |-> <<>>]
    ELSE [err |-> IF ret # errorSuccess THEN ret ELSE nil,
          calls |-> <<"pdhCollectQueryData">>]

CollectDataWithTime(q, ret) ==
  IF q.queryHandle = 0
    THEN [err |-> errUninitializedQuery, calls |-> <<>>]
    ELSE [err |-> IF ret # errorSuccess THEN ret ELSE nil,
          calls |-> <<"pdhCollectQueryDataWithTime">>]

\* The error of a scalar read from the native return and the sample status.
ScalarStatus(ret, cstatus) ==
  IF ret # errorSuccess THEN ret
  ELSE IF cstatus = pdhCstatusValidData \/ cstatus = pdhCstatusNewData THEN nil
  ELSE cstatus

\* The value of a scalar read: the sample's value, or 0 next to an error.
ScalarValue(err, sample) == IF err = nil THEN sample ELSE 0

GetFormattedCounterValueDouble(q, ret, cstatus) ==
  [err |-> ScalarStatus(ret, cstatus),
   value |-> ScalarValue(ScalarStatus(ret, cstatus), "DoubleValue"),
   calls |-> <<"pdhGetFormattedCounterValueDouble">>]

GetRawCounterValue(q, ret, cstatus) ==
  IF q.queryHandle = 0
    THEN [err |-> errUninitializedQuery, value |-> 0, calls |-> <<>>]
    ELSE [err |-> ScalarStatus(ret, cstatus),
          value |-> ScalarValue(ScalarStatus(ret, cstatus), "FirstValue"),
          calls |-> <<"pdhGetRawCounterValue">>]

\* The array reads after a successful native call: every item is kept.
AllCounterValues(items) ==
  [k \in 1 .. Len(items) |->
     [instanceName |-> items[k].instanceName, value |-> items[k].value]]

\* if item.FmtValue.CStatus == pdhCstatusValidData || ... == pdhCstatusNewData
ValidItem(item) == item.CStatus = pdhCstatusValidData \/ item.CStatus = pdhCstatusNewData

\* The array reads after a successful native call: values := the items with
\* a valid status, in the order of the buffer.
CounterValues(items) == AllCounterValues(SelectSeq(items, ValidItem))

(***************************************************************************)
(* The buffer-sized calls.  Each is a for loop over buflen (a uint32).     *)
(***************************************************************************)
\* One pass through the for loop of GetCounterPath: the loop condition, the native
\* attempt with a buffer of buflenIn, and the post statement buflen *= 2.
GetCounterPathLoop(buflenIn, max, ret, size) ==
  IF ~(buflenIn <= max)
    THEN [pc |-> "idle", err |-> errBufferLimitReached, buflen |-> buflenIn, called |-> FALSE]
  ELSE IF buflenIn = 0
    \* buf := make([]byte, 0); &buf[0]
    THEN [pc |-> "idle", err |-> panicIndexOutOfRange, buflen |-> buflenIn, called |-> FALSE]
  ELSE IF ret = errorSuccess
    THEN [pc |-> "idle", err |-> nil, buflen |-> buflenIn, called |-> TRUE]
  ELSE LET hinted == IF size > buflenIn THEN size ELSE buflenIn IN
       IF ret # pdhMoreData
         THEN [pc |-> "idle", err |-> ret, buflen |-> hinted, called |-> TRUE]
         ELSE [pc |-> "loop", err |-> "pending", buflen |-> (hinted * 2) % Modulus,
               called |-> TRUE]

\* One pass through the for loop of ExpandWildCardPath: the loop condition, the native
\* attempt with a buffer of buflenIn, and the post statement buflen *= 2.
ExpandWildCardPathLoop(buflenIn, max, ret, size) ==
  IF ~(buflenIn <= max)
    THEN [pc |-> "idle", err |-> errBufferLimitReached, buflen |-> buflenIn, called |-> FALSE]
  ELSE IF buflenIn = 0
    \* buf := make([]uint16, 0); &buf[0]
    THEN [pc |-> "idle", err |-> panicIndexOutOfRange, buflen |-> buflenIn, called |-> FALSE]
  ELSE IF ret = errorSuccess
    THEN [pc |-> "idle", err |-> nil, buflen |-> buflenIn, called |-> TRUE]
  ELSE LET hinted == IF size > buflenIn THEN size ELSE buflenIn IN
       IF ret # pdhMoreData
         THEN [pc |-> "idle", err |-> ret, buflen |-> hinted, called |-> TRUE]
         ELSE [pc |-> "loop", err |-> "pending", buflen |-> (hinted * 2) % Modulus,
               called |-> TRUE]

\* One pass through the for loop of GetFormattedCounterArrayDouble: the loop condition, the native
\* attempt with a buffer of buflenIn, and the post statement buflen *= 2.
GetFormattedCounterArrayDoubleLoop(buflenIn, max, ret, size) ==
  IF ~(buflenIn <= max)
    THEN [pc |-> "idle", err |-> errBufferLimitReached, buflen |-> buflenIn, called |-> FALSE]
  ELSE IF buflenIn = 0
    \* buf := make([]byte, 0); &buf[0]
    THEN [pc |-> "idle", err |-> panicIndexOutOfRange, buflen |-> buflenIn, called |-> FALSE]
  ELSE IF ret = errorSuccess
    THEN [pc |-> "idle", err |-> nil, buflen |-> buflenIn, called |-> TRUE]
  ELSE LET hinted == IF size > buflenIn THEN size ELSE buflenIn IN
       IF ret # pdhMoreData
         THEN [pc |-> "idle", err |-> ret, buflen |-> hinted, called |-> TRUE]
         ELSE [pc |-> "loop", err |-> "pending", buflen |-> (hinted * 2) % Modulus,
               called |-> TRUE]

\* A pass that ignores the size the native side wrote back.
GetRawCounterArrayLoopNoHint(buflenIn, max, ret, size) ==
  IF ~(buflenIn <= max)
    THEN [pc |-> "idle", err |-> errBufferLimitReached, buflen |-> buflenIn, called |-> FALSE]
  ELSE IF buflenIn = 0
    THEN [pc |-> "idle", err |-> panicIndexOutOfRange, buflen |-> buflenIn, called |-> FALSE]
  ELSE IF ret = errorSuccess
    THEN [pc |-> "idle", err |-> nil, buflen |-> buflenIn, called |-> TRUE]
  ELSE IF ret # pdhMoreData
    THEN [pc |-> "idle", err |-> ret, buflen |-> buflenIn, called |-> TRUE]
    ELSE [pc |-> "loop", err |-> "pending", buflen |-> (buflenIn * 2) % Modulus,
          called |-> TRUE]

\* One pass through the for loop of GetRawCounterArray: the loop condition, the native
\* attempt with a buffer of buflenIn, and the post statement buflen *= 2.
GetRawCounterArrayLoop(buflenIn, max, ret, size) ==
  IF ~(buflenIn <= max)
    THEN [pc |-> "idle", err |-> errBufferLimitReached, buflen |-> buflenIn, called |-> FALSE]
  ELSE IF buflenIn = 0
    \* buf := make([]byte, 0); &buf[0]
    THEN [pc |-> "idle", err |-> panicIndexOutOfRange, buflen |-> buflenIn, called |-> FALSE]
  ELSE IF ret = errorSuccess
    THEN [pc |-> "idle", err |-> nil, buflen |-> buflenIn, called |-> TRUE]
  ELSE LET hinted == IF size > buflenIn THEN size ELSE buflenIn IN
       IF ret # pdhMoreData
         THEN [pc |-> "idle", err |-> ret, buflen |-> hinted, called |-> TRUE]
         ELSE [pc |-> "loop", err |-> "pending", buflen |-> (hinted * 2) % Modulus,
               called |-> TRUE]

LoopOf(call, buflenIn, max, ret, size) ==
  CASE call = "GetCounterPath" -> GetCounterPathLoop(buflenIn, max, ret, size)
    [] call = "ExpandWildCardPath" -> ExpandWildCardPathLoop(buflenIn, max, ret, size)
    [] call = "GetFormattedCounterArrayDouble" ->
         GetFormattedCounterArrayDoubleLoop(buflenIn, max, ret, size)
    [] call = "GetRawCounterArray" -> GetRawCounterArrayLoop(buflenIn, max, ret, size)

NativeOf(call) ==
  CASE call = "GetCounterPath" -> "pdhGetCounterInfo"
    [] call = "ExpandWildCardPath" -> "pdhExpandWildCardPath"
    [] call = "GetFormattedCounterArrayDouble" -> "pdhGetFormattedCounterArrayDouble"
    [] call = "GetRawCounterArray" -> "pdhGetRawCounterArray"

\* The response the two-phase convention prescribes when the data needs
\* `required` units: success once the buffer holds it, else "more data" with
\* the required size written back.
TwoPhase(required, len, ret, size) ==
  IF len >= required THEN ret = errorSuccess
  ELSE ret = pdhMoreData /\ size = required

Min(a, b) == IF a < b THEN a ELSE b

(***************************************************************************)
(* Spec: calls on one query.                                               *)
(***************************************************************************)
\* The locals of a buffer-sized call are gone once another call is made.
BufLocals ==
  /\ bufPc = "idle"
  /\ bufCall = "GetCounterPath"
  /\ buflen = initialBufferSize
  /\ bufN = 0
  /\ bufPrev = NoPrev
  /\ bufValid = FALSE
  /\ bufRequired = initialBufferSize
  /\ bufWell = TRUE

\* No WinPerfCounters has been constructed.
NoCollector ==
  /\ cfg = "none"
  /\ lastRefreshed = [isZero |-> TRUE, age |-> 0]
  /\ hostCounters = EmptyMap
  /\ pdhSamples = EmptyMap
  /\ pdhPaths = EmptyMap
  /\ gPc = "idle"
  /\ gTodo = {}
  /\ gItem = 0
  /\ gRet = "none"
  /\ gRefreshed = FALSE
  /\ gOld = {}
  /\ gLast = "none"
  /\ tasks = EmptyMap
  /\ emitted = {}
  /\ hostFailed = {}
  /\ faults = 0

Returned(op, r) ==
  /\ bufPc' = "idle"
  /\ bufCall' = "GetCounterPath"
  /\ buflen' = initialBufferSize
  /\ bufN' = 0
  /\ bufPrev' = NoPrev
  /\ bufValid' = FALSE
  /\ bufRequired' = initialBufferSize
  /\ bufWell' = TRUE
  /\ qOp' = op
  /\ qPre' = query.queryHandle
  /\ qErr' = r.err
  /\ qCalls' = r.calls
  /\ UNCHANGED <<gatherVars, pathVars>>

\* Whether the native side knows counter handle hc of this query.
KnownCounter(hc) == <<query.queryHandle, hc>> \in pdhCounters

DoOpen ==
  /\ bufPc = "idle"
  /\ \E closeRet \in PdhRets, openRet \in PdhRets, h \in QueryHandles :
       /\ query.queryHandle # 0 => closeRet \in CloseRets(pdhQueries, query.queryHandle)
       /\ LET r == Open(query, pdhQueries, pdhCounters, closeRet, openRet, h) IN
          /\ r.fresh
          /\ query' = r.q
          /\ pdhQueries' = r.queries
          /\ pdhCounters' = r.counters
          /\ Returned("Open", r)

DoClose ==
  /\ bufPc = "idle"
  /\ \E ret \in PdhRets :
       /\ query.queryHandle # 0 => ret \in CloseRets(pdhQueries, query.queryHandle)
       /\ LET r == Close(query, pdhQueries, pdhCounters, ret) IN
          /\ query' = r.q
          /\ pdhQueries' = r.queries
          /\ pdhCounters' = r.counters
          /\ Returned("Close", r)

DoAddCounterToQuery ==
  /\ bufPc = "idle"
  /\ \E ret \in PdhRets, hc \in CounterHandles :
       LET r == AddCounterToQuery(query, pdhQueries, pdhCounters, ret, hc) IN
         /\ pdhCounters' = r.counters
         /\ Returned("AddCounterToQuery", r)
  /\ UNCHANGED <<query, pdhQueries>>

DoAddEnglishCounterToQuery ==
  /\ bufPc = "idle"
  /\ \E ret \in PdhRets, hc \in CounterHandles :
       LET r == AddEnglishCounterToQuery(query, pdhQueries, pdhCounters, ret, hc) IN
         /\ pdhCounters' = r.counters
         /\ Returned("AddEnglishCounterToQuery", r)
  /\ UNCHANGED <<query, pdhQueries>>

DoCollectData ==
  /\ bufPc = "idle"
  /\ \E ret \in PdhRets : Returned("CollectData", CollectData(query, ret))
  /\ UNCHANGED <<query, pdhQueries, pdhCounters>>

DoCollectDataWithTime ==
  /\ bufPc = "idle"
  /\ \E ret \in PdhRets : Returned("CollectDataWithTime", CollectDataWithTime(query, ret))
  /\ UNCHANGED <<query, pdhQueries, pdhCounters>>

\* A scalar read of counter handle hc: the native side rejects a handle it
\* does not know.
DoGetFormattedCounterValueDouble ==
  /\ bufPc = "idle"
  /\ \E hc \in CounterHandles, ret \in PdhRets, cstatus \in PdhCStatuses :
       /\ ~KnownCounter(hc) => ret \in PdhFailures
       /\ Returned("GetFormattedCounterValueDouble",
                   GetFormattedCounterValueDouble(query, ret, cstatus))
  /\ UNCHANGED <<query, pdhQueries, pdhCounters>>

DoGetRawCounterValue ==
  /\ bufPc = "idle"
  /\ \E hc \in CounterHandles, ret \in PdhRets, cstatus \in PdhCStatuses :
       /\ ~KnownCounter(hc) => ret \in PdhFailures
       /\ Returned("GetRawCounterValue", GetRawCounterValue(query, ret, cstatus))
  /\ UNCHANGED <<query, pdhQueries, pdhCounters>>

\* Entering a buffer-sized call: buflen := initialBufferSize.
DoBuffered ==
  /\ bufPc = "idle"
  /\ \E call \in BufferedCalls, hc \in CounterHandles, required \in NativeSizes \ {0} :
       /\ bufCall' = call
       /\ bufValid' = (call = "ExpandWildCardPath" \/ KnownCounter(hc))
       /\ bufRequired' = required
       /\ qOp' = call
  /\ bufPc' = "loop"
  /\ buflen' = initialBufferSize
  /\ bufN' = 0
  /\ bufPrev' = NoPrev
  /\ bufWell' = TRUE
  /\ qPre' = query.queryHandle
  /\ qErr' = "pending"
  /\ qCalls' = <<>>
  /\ UNCHANGED <<query, pdhQueries, pdhCounters>>
  /\ UNCHANGED <<gatherVars, pathVars>>

\* One iteration of the loop the call is in.
BufIterate ==
  /\ bufPc = "loop"
  /\ \E ret \in PdhBufRets, size \in NativeSizes \cup {buflen} :
       /\ ~bufValid => ret \in PdhFailures
       /\ LET r == LoopOf(bufCall, buflen, query.maxBufferSize, ret, size) IN
          /\ bufPc' = r.pc
          /\ buflen' = r.buflen
          /\ qErr' = r.err
          /\ IF r.called
               THEN /\ bufN' = Min(bufN + 1, MaxAttempts)
                    /\ bufPrev' = [len |-> buflen, size |-> size]
                    /\ bufWell' = (bufWell /\ TwoPhase(bufRequired, buflen, ret, size))
                    /\ qCalls' = <<NativeOf(bufCall)>>
               ELSE UNCHANGED <<bufN, bufPrev, bufWell, qCalls>>
  /\ UNCHANGED <<query, pdhQueries, pdhCounters, qOp, qPre, bufCall, bufValid, bufRequired>>
  /\ UNCHANGED <<gatherVars, pathVars>>

Init ==
  /\ query \in [maxBufferSize : MaxBufferSizes, queryHandle : {0}]
  /\ pdhQueries = {}
  /\ pdhCounters = {}
  /\ qOp = "new"
  /\ qPre = 0
  /\ qErr = nil
  /\ qCalls = <<>>
  /\ BufLocals
  /\ NoCollector
  /\ NoPath

Next ==
  \/ DoOpen
  \/ DoClose
  \/ DoAddCounterToQuery
  \/ DoAddEnglishCounterToQuery
  \/ DoCollectData
  \/ DoCollectDataWithTime
  \/ DoGetFormattedCounterValueDouble
  \/ DoGetRawCounterValue
  \/ DoBuffered
  \/ BufIterate

Spec == Init /\ [][Next]_vars

(***************************************************************************)
(* Strings are sequences of one-character strings.                         *)
(***************************************************************************)
emptyInstance == <<"-", "-", "-", "-", "-", "-">>
localhost == <<"l", "o", "c", "a", "l", "h", "o", "s", "t">>
totalInstance == <<"_", "T", "o", "t", "a", "l">>
star == <<"*">>
rawSuffix == <<"_", "R", "a", "w">>
defaultMeasurement ==
  <<"w", "i", "n", "_", "p", "e", "r", "f", "_", "c", "o", "u", "n", "t", "e", "r", "s">>

\* strings.HasPrefix(s, prefix)
HasPrefix(s, prefix) ==
  Len(prefix) <= Len(s) /\ SubSeq(s, 1, Len(prefix)) = prefix

\* strings.Contains(s, sub)
Contains(s, sub) ==
  \E k \in 0 .. (Len(s) - Len(sub)) : SubSeq(s, k + 1, k + Len(sub)) = sub

\* The old/new pairs of sanitizedChars, in argument order.
sanitizedChars ==
  << <<(<<"/", "s", "e", "c">>), (<<"_", "p", "e", "r", "s", "e", "c">>)>>,
     <<(<<"/", "S", "e", "c">>), (<<"_", "p", "e", "r", "s", "e", "c">>)>>,
     <<(<<" ">>), (<<"_">>)>>,
     <<(<<"%">>), (<<"P", "e", "r", "c", "e", "n", "t">>)>>,
     <<(<<"\\">>), (<<>>)>> >>

\* strings.Replacer.Replace: left to right, at each position the first pair
\* whose old string starts there is applied, else the character is copied.
RECURSIVE Replace(_, _)
Replace(pairs, s) ==
  IF s = <<>> THEN <<>>
  ELSE LET hits == {k \in 1 .. Len(pairs) : HasPrefix(s, pairs[k][1])} IN
       IF hits = {}
         THEN <<Head(s)>> \o Replace(pairs, Tail(s))
         ELSE LET k == CHOOSE x \in hits : \A y \in hits : x <= y IN
              pairs[k][2] \o Replace(pairs, SubSeq(s, Len(pairs[k][1]) + 1, Len(s)))

(***************************************************************************)
(* Path grammar.                                                           *)
(***************************************************************************)
\* formatPath without the special case of the empty-instance sentinel.
formatPathWithInstance(computer, objectName, instance, counter) ==
  LET path == <<"\\">> \o objectName \o <<"(">> \o instance \o <<")">>
                \o <<"\\">> \o counter
  IN IF computer # <<>> /\ computer # localhost
       THEN <<"\\", "\\">> \o computer \o path
       ELSE path

\* formatPath
formatPath(computer, objectName, instance, counter) ==
  LET path == IF instance = emptyInstance
                THEN <<"\\">> \o objectName \o <<"\\">> \o counter
                ELSE <<"\\">> \o objectName \o <<"(">> \o instance \o <<")">>
                       \o <<"\\">> \o counter
  IN IF computer # <<>> /\ computer # localhost
       THEN <<"\\", "\\">> \o computer \o path
       ELSE path

\* The border indexes of extractCounterInfoFromCounterPath before its scan
\* (0-based, -1 for "not found").
NoBorders ==
  [leftComputer |-> -1, rightObject |-> -1, leftObject |-> -1, leftCounter |-> -1,
   rightInstance |-> -1, leftInstance |-> -1, bracketLevel |-> 0]

\* The scan without nesting depth: every backslash is a border and the first
\* parentheses met from the end are the instance borders.
ScanCharFlat(b, ch, i) ==
  IF ch = "\\" THEN
    IF b.leftCounter = -1 THEN [b EXCEPT !.leftCounter = i]
    ELSE IF b.leftObject = -1 THEN [b EXCEPT !.leftObject = i]
    ELSE IF b.leftComputer = -1 THEN [b EXCEPT !.leftComputer = i]
    ELSE b
  ELSE IF ch = "(" THEN
    IF b.leftInstance = -1 /\ b.leftObject = -1 /\ b.leftCounter > -1
      THEN [b EXCEPT !.leftInstance = i, !.rightObject = i]
      ELSE b
  ELSE IF ch = ")" THEN
    IF b.rightInstance = -1 /\ b.leftCounter > -1
      THEN [b EXCEPT !.rightInstance = i]
      ELSE b
  ELSE b

\* The body of the scan for the character at 0-based index i.
ScanChar(b, ch, i) ==
  IF ch = "\\" THEN
    IF b.bracketLevel = 0 THEN
      IF b.leftCounter = -1 THEN [b EXCEPT !.leftCounter = i]
      ELSE IF b.leftObject = -1 THEN [b EXCEPT !.leftObject = i]
      ELSE IF b.leftComputer = -1 THEN [b EXCEPT !.leftComputer = i]
      ELSE b
    ELSE b
  ELSE IF ch = "(" THEN
    LET level == b.bracketLevel - 1 IN
    IF b.leftInstance = -1 /\ level = 0 /\ b.leftObject = -1 /\ b.leftCounter > -1
      THEN [b EXCEPT !.bracketLevel = level, !.leftInstance = i, !.rightObject = i]
      ELSE [b EXCEPT !.bracketLevel = level]
  ELSE IF ch = ")" THEN
    IF b.rightInstance = -1 /\ b.bracketLevel = 0 /\ b.leftCounter > -1
      THEN [b EXCEPT !.rightInstance = i, !.bracketLevel = b.bracketLevel + 1]
      ELSE [b EXCEPT !.bracketLevel = b.bracketLevel + 1]
  ELSE b

\* for i := len(counterPath) - 1; i >= 0; i--
RECURSIVE ScanFrom(_, _, _)
ScanFrom(path, i, b) ==
  IF i < 0 THEN b ELSE ScanFrom(path, i - 1, ScanChar(b, path[i + 1], i))

\* counterPath[from:to]
Slice(path, from, to) == SubSeq(path, from + 1, to)

ParseError == [ok |-> FALSE, computer |-> <<>>, object |-> <<>>, instance |-> <<>>,
               counter |-> <<>>]

\* The scan's borders left as they are: a path without an instance has no
\* right border of the object.
KeepRightObject(b) == b

\* if rightObjectBorderIndex == -1 { rightObjectBorderIndex = leftCounterBorderIndex }
FixRightObject(b) ==
  IF b.rightObject = -1 THEN [b EXCEPT !.rightObject = b.leftCounter] ELSE b

\* The checks and slices of extractCounterInfoFromCounterPath after its scan.
ExtractAt(counterPath, b) ==
  IF b.rightObject = -1 \/ b.leftObject = -1 THEN ParseError
  ELSE IF b.leftComputer > -1
          /\ (b.leftComputer # 1 \/ b.leftComputer = b.leftObject - 1) THEN ParseError
  ELSE IF (b.leftInstance = -1 /\ b.rightInstance > -1)
          \/ (b.leftInstance > -1 /\ b.rightInstance = -1) THEN ParseError
  ELSE [ok |-> TRUE,
        computer |-> IF b.leftComputer > -1
                       THEN Slice(counterPath, b.leftComputer + 1, b.leftObject)
                       ELSE <<>>,
        object |-> Slice(counterPath, b.leftObject + 1, b.rightObject),
        instance |-> IF b.leftInstance > -1 /\ b.rightInstance > -1
                       THEN Slice(counterPath, b.leftInstance + 1, b.rightInstance)
                       ELSE <<>>,
        counter |-> Slice(counterPath, b.leftCounter + 1, Len(counterPath))]

\* extractCounterInfoFromCounterPath
extractCounterInfoFromCounterPath(counterPath) ==
  ExtractAt(counterPath,
            FixRightObject(ScanFrom(counterPath, Len(counterPath) - 1, NoBorders)))

\* if measurementName == "" { measurementName = "win_perf_counters" }
MeasurementName(m) == IF m = <<>> THEN defaultMeasurement ELSE m

\* The sanitized name without the raw-value suffix.
CounterNamePlain(n, useRawValue) == n

\* if useRawValue { newCounterName += "_Raw" }
CounterName(n, useRawValue) == IF useRawValue THEN n \o rawSuffix ELSE n

\* newCounter
newCounter(counterHandle, counterPath, computer, objectName, instance, counterName, measurement, includeTotal, useRawValue) ==
  [counterPath |-> counterPath, computer |-> computer, objectName |-> objectName,
   counter |-> CounterName(Replace(sanitizedChars, counterName), useRawValue),
   instance |-> instance,
   measurement |-> MeasurementName(Replace(sanitizedChars, measurement)),
   includeTotal |-> includeTotal, useRawValue |-> useRawValue,
   counterHandle |-> counterHandle]

(***************************************************************************)
(* WinPerfCounters: configuration and the native side it runs against.     *)
(***************************************************************************)
\* os.Hostname() of the machine the collector runs on.
osHostname == <<"w">>
remoteHost == <<"h">>

\* perfObject
PerfObject(instances, failOnMissing, includeTotal, useRawValues) ==
  [Sources |-> <<>>, ObjectName |-> <<"O">>,
   Counters |-> <<(<<"%", "a">>), (<<"b", "/", "s", "e", "c">>)>>,
   Instances |-> instances, Measurement |-> <<>>, WarnOnMissing |-> FALSE,
   FailOnMissing |-> failOnMissing, IncludeTotal |-> includeTotal,
   UseRawValues |-> useRawValues]

\* The configured fields of a WinPerfCounters, with the two facts of the
\* native side that do not change while it runs: whether
\* PdhAddEnglishCounter exists (vista) and the suffix that marks the names
\* the operating system returns as localized (empty on an English system).
Config(expand, localize, perfTime, ignored, interval, object, vista, locale) ==
  [UseWildcardsExpansion |-> expand, LocalizeWildcardsExpansion |-> localize,
   UsePerfCounterTime |-> perfTime, IgnoredErrors |-> ignored,
   CountersRefreshInterval |-> interval, MaxBufferSize |-> 4096,
   Sources |-> <<localhost, remoteHost>>, Object |-> <<object>>,
   vista |-> vista, locale |-> locale]

\* A configuration with two objects, the second one with FailOnMissing.
TwoObjects ==
  << [PerfObject(<<emptyInstance>>, FALSE, FALSE, FALSE)
        EXCEPT !.Counters = <<(<<"%", "a">>)>>],
     [PerfObject(<<emptyInstance>>, TRUE, FALSE, FALSE)
        EXCEPT !.Counters = <<(<<"b", "/", "s", "e", "c">>)>>] >>

\* Three small configurations on localhost only: one without objects, and
\* two with a wildcard in the object name, without and with wildcard
\* expansion (the latter with LocalizeWildcardsExpansion = false).
WildcardObject ==
  [PerfObject(<<emptyInstance>>, FALSE, FALSE, FALSE)
     EXCEPT !.ObjectName = <<"O", "*">>, !.Counters = <<(<<"%", "a">>)>>]

NoObjectsConfig ==
  [Config(FALSE, TRUE, FALSE, {}, 0, WildcardObject, TRUE, <<>>)
     EXCEPT !.Object = <<>>, !.Sources = <<localhost>>]

\* Wildcard expansion with the total instance as the configured instance, on
\* localhost only.
TotalOnlyConfig ==
  [Config(TRUE, TRUE, FALSE, {}, 0,
          [PerfObject(<<totalInstance>>, FALSE, FALSE, FALSE)
             EXCEPT !.Counters = <<(<<"%", "a">>)>>], TRUE, <<>>)
     EXCEPT !.Sources = <<localhost>>]

WildcardConfig(expand) ==
  [Config(expand, ~expand, FALSE, {}, 0, WildcardObject, TRUE, <<>>)
     EXCEPT !.Sources = <<localhost>>]

\* Two counters whose names sanitize to the same field name, on localhost
\* only.
SameFieldConfig ==
  [Config(FALSE, TRUE, TRUE, {}, 0,
          [PerfObject(<<emptyInstance>>, FALSE, FALSE, FALSE)
             EXCEPT !.Counters = <<(<<"%">>), (<<"P", "e", "r", "c", "e", "n", "t">>)>>],
          TRUE, <<>>)
     EXCEPT !.Sources = <<localhost>>]

\* The README's object without instances: Memory, Instances = ["------"],
\* Counters = ["Available Bytes"], on localhost, without and with wildcard
\* expansion.
Memory == <<"M", "e", "m", "o", "r", "y">>
AvailableBytes ==
  <<"A", "v", "a", "i", "l", "a", "b", "l", "e", " ", "B", "y", "t", "e", "s">>

MemoryConfig(expand) ==
  [Config(expand, TRUE, FALSE, {}, 1,
          [PerfObject(<<emptyInstance>>, FALSE, FALSE, FALSE)
             EXCEPT !.ObjectName = Memory, !.Counters = <<AvailableBytes>>],
          TRUE, <<>>)
     EXCEPT !.Sources = <<localhost>>]

\* One instance of a process that runs several times (w#1), without wildcard
\* expansion, on localhost only.
ProcessInstance == <<"w", "#", "1">>

HashConfig ==
  [Config(FALSE, TRUE, FALSE, {}, 0,
          [PerfObject(<<ProcessInstance>>, FALSE, FALSE, FALSE)
             EXCEPT !.Counters = <<(<<"%", "a">>)>>], TRUE, <<>>)
     EXCEPT !.Sources = <<localhost>>]

GatherConfigs ==
  { Config(TRUE, TRUE, FALSE, {}, 1,
           [PerfObject(<<star>>, FALSE, TRUE, FALSE) EXCEPT !.Counters = <<(<<"%", "a">>)>>],
           TRUE, <<>>),
    Config(TRUE, FALSE, TRUE, {pdhInvalidHandle}, 1,
           PerfObject(<<star>>, TRUE, FALSE, FALSE), TRUE, <<"~">>),
    Config(FALSE, TRUE, TRUE, {}, 0, PerfObject(<<star>>, FALSE, FALSE, TRUE), TRUE, <<>>),
    Config(FALSE, TRUE, TRUE, {pdhInvalidHandle}, 1,
           PerfObject(<<emptyInstance>>, FALSE, FALSE, FALSE), FALSE, <<>>),
    [Config(FALSE, TRUE, FALSE, {}, 0, PerfObject(<<emptyInstance>>, FALSE, FALSE, FALSE),
            TRUE, <<>>) EXCEPT !.Object = TwoObjects],
    NoObjectsConfig, WildcardConfig(FALSE), WildcardConfig(TRUE), TotalOnlyConfig,
    SameFieldConfig, MemoryConfig(FALSE), MemoryConfig(TRUE), HashConfig }

\* The instances every object has on the native side.
NativeInstances == <<(<<"i">>), totalInstance>>

\* A timestamp: the clock it was read from (the native side's or time.Now()),
\* whether it was taken in the running Gather call or an earlier one, and
\* the method of the query that took the sample it belongs to.
\* ZeroTime is the zero value of time.Time.
ZeroTime == [src |-> "zero", call |-> "earlier", by |-> "none"]

\* The handle pdhOpenQuery / pdhAddCounter hands out: one not in use.
NewQueryHandle(queries) ==
  CHOOSE h \in 1 .. (Cardinality(queries) + 1) : h \notin queries

NewCounterHandle(counters) ==
  CHOOSE c \in 1 .. (Cardinality(counters) + 1) : \A p \in counters : p[2] # c

\* The full path the native side reports for a registered path, and the
\* paths it expands a wildcard path to: object and counter names come back
\* in the system's language.
pdhLocalize(name) == name \o cfg.locale

FullPathOf(counterPath, e) ==
  IF ~e.ok THEN counterPath
  ELSE formatPath(e.computer, pdhLocalize(e.object),
                  IF Contains(counterPath, <<"(">>) THEN e.instance ELSE emptyInstance,
                  pdhLocalize(e.counter))

pdhFullPath(counterPath) ==
  FullPathOf(counterPath, extractCounterInfoFromCounterPath(counterPath))

ExpansionOf(counterPath, e) ==
  IF ~e.ok THEN <<>>
  ELSE IF e.instance = star
    THEN [k \in 1 .. Len(NativeInstances) |->
            formatPath(e.computer, e.object, NativeInstances[k], e.counter)]
    ELSE <<counterPath>>

pdhExpand(counterPath) ==
  ExpansionOf(counterPath, extractCounterInfoFromCounterPath(counterPath))

\* A fault names the native call of the running step that misbehaves, and
\* how: a failure code, or pdhMoreData for "needs more than the first buffer".
NoFault == [at |-> "none", k |-> 0, code |-> errorSuccess]
FaultAt(f, at, k) == IF f.at = at /\ f.k = k THEN f.code ELSE errorSuccess

\* The size a buffer-sized native call needs (in the unit of its buffer).
SmallSize == 512
BigSize == 3000
NativeRequired(code) == IF code = pdhMoreData THEN BigSize ELSE SmallSize

\* What the native side answers to an attempt with a buffer of buflenIn.
NativeRet(buflenIn, required, failure) ==
  IF failure # errorSuccess THEN failure
  ELSE IF buflenIn >= required THEN errorSuccess ELSE pdhMoreData

NativeSize(buflenIn, required, ret) == IF ret = pdhMoreData THEN required ELSE buflenIn

\* A buffer-sized call run to its return against a native side that follows
\* the two-phase convention and needs `required`, or fails with `failure`.
RECURSIVE RunLoop(_, _, _, _, _)
RECURSIVE RunAttempt(_, _, _, _, _, _)
RECURSIVE RunNext(_, _, _, _, _)
RunNext(call, max, required, failure, r) ==
  IF r.pc = "idle" THEN r.err ELSE RunLoop(call, r.buflen, max, required, failure)

RunAttempt(call, buflenIn, max, required, failure, ret) ==
  RunNext(call, max, required, failure,
          LoopOf(call, buflenIn, max, ret, NativeSize(buflenIn, required, ret)))

RunLoop(call, buflenIn, max, required, failure) ==
  RunAttempt(call, buflenIn, max, required, failure,
             NativeRet(buflenIn, required, failure))

\* The error a buffer-sized call of the collector returns under fault code c.
Buffered(call, max, c) ==
  RunLoop(call, initialBufferSize, max, NativeRequired(c),
          IF c = pdhMoreData THEN errorSuccess ELSE c)

\* An array read run to its return: the error of its loop, and the values
\* built from the items the native side wrote on success.
ArrayRead(call, max, c, items) ==
  [err |-> Buffered(call, max, c),
   values |-> IF Buffered(call, max, c) = nil THEN CounterValues(items) ELSE <<>>]

(***************************************************************************)
(* Resolver: addItem and parseConfig.  The state they work on is threaded  *)
(* as w = [hc: hostCounters, nq: pdhQueries, nc: pdhCounters,              *)
(* ns: pdhSamples].                                                        *)
(***************************************************************************)
\* The native side after the successful registration a of `path` under
\* counter handle h: a.calls names the native function that was called.
Added(w, a, h, path) ==
  [w EXCEPT !.nc = a.counters, !.np = (h :> [path |-> path, fn |-> a.calls[1]]) @@ @]

\* hostCounter.counters = append(hostCounter.counters, newItem)
AppendCounter(w, computer, newItem) ==
  [w EXCEPT !.hc = [@ EXCEPT ![computer].counters = Append(@, newItem)]]

\* An expansion loop that keeps the path the native side returned.
ExpandedPathAsReturned(orig, counterPath, e) == counterPath

\* The path of one expanded path's item: English names from the original path
\* unless the expansion is to stay localized.
ExpandedPath(orig, counterPath, e) ==
  IF ~cfg.LocalizeWildcardsExpansion
    THEN formatPath(e.computer, orig.object,
                    IF e.instance = <<>> THEN emptyInstance ELSE e.instance,
                    orig.counter)
    ELSE counterPath

ExpandedItem(p, orig, path, e, counterHandle) ==
  IF ~cfg.LocalizeWildcardsExpansion
    THEN newCounter(counterHandle, path, e.computer, orig.object, e.instance,
                    orig.counter, p.measurement, p.includeTotal, p.useRawValue)
    ELSE newCounter(counterHandle, path, e.computer, e.object, e.instance, e.counter,
                    p.measurement, p.includeTotal, p.useRawValue)

\* A loop that keeps every expanded path.
KeepsTotal(instance, origInstance, includeTotal) == FALSE

\* if instance == "_Total" && origInstance == "*" && !includeTotal { continue }
SkipsTotal(instance, origInstance, includeTotal) ==
  instance = totalInstance /\ origInstance = star /\ ~includeTotal

\* The loop over the expanded paths, from path k on.  p holds addItem's
\* parameters, orig the parse of the original path; a1 is the first
\* registration of the path, e its parse, a2 its final registration under
\* handle h2.
RECURSIVE ExpandLoop(_, _, _, _, _, _)
RECURSIVE ExpandAdded(_, _, _, _, _, _, _)
RECURSIVE ExpandParsed(_, _, _, _, _, _, _)
RECURSIVE ExpandFinal(_, _, _, _, _, _, _, _, _)
ExpandFinal(w, p, orig, counters, k, f, e, h2, a2) ==
  IF a2.err # nil THEN [w |-> w, err |-> a2.err]
  ELSE IF SkipsTotal(e.instance, p.instance, p.includeTotal)
    THEN ExpandLoop(Added(w, a2, h2, ExpandedPath(orig, counters[k], e)), p, orig,
                    counters, k + 1, f)
    ELSE ExpandLoop(AppendCounter(Added(w, a2, h2, ExpandedPath(orig, counters[k], e)),
                      p.computer,
                      ExpandedItem(p, orig, ExpandedPath(orig, counters[k], e), e, h2)),
                    p, orig, counters, k + 1, f)

ExpandParsed(w, p, orig, counters, k, f, e) ==
  IF ~e.ok THEN [w |-> w, err |-> "cannot parse"]
  ELSE ExpandFinal(w, p, orig, counters, k, f, e, NewCounterHandle(w.nc),
         IF ~cfg.LocalizeWildcardsExpansion
           THEN AddEnglishCounterToQuery(w.hc[p.computer].query, w.nq, w.nc,
                                         FaultAt(f, "loopAddFinal", k),
                                         NewCounterHandle(w.nc))
           ELSE AddCounterToQuery(w.hc[p.computer].query, w.nq, w.nc,
                                  FaultAt(f, "loopAddFinal", k), NewCounterHandle(w.nc)))

ExpandAdded(w, p, orig, counters, k, f, a1) ==
  IF a1.err # nil THEN [w |-> w, err |-> a1.err]
  ELSE ExpandParsed(Added(w, a1, NewCounterHandle(w.nc), counters[k]), p, orig, counters,
                    k, f,
                    extractCounterInfoFromCounterPath(counters[k]))

ExpandLoop(w, p, orig, counters, k, f) ==
  IF k > Len(counters) THEN [w |-> w, err |-> nil]
  ELSE ExpandAdded(w, p, orig, counters, k, f,
                   AddCounterToQuery(w.hc[p.computer].query, w.nq, w.nc,
                                     FaultAt(f, "loopAdd", k), NewCounterHandle(w.nc)))

\* addItem with wildcard expansion, the counter of the original path added:
\* the full path, its expansion and the parse of the original path.
AddItemPaths(w, p, f, pathErr, expandErr, orig) ==
  IF pathErr # nil THEN [w |-> w, err |-> pathErr]
  ELSE IF expandErr # nil THEN [w |-> w, err |-> expandErr]
  ELSE IF ~orig.ok THEN [w |-> w, err |-> "cannot parse"]
  ELSE ExpandLoop(w, p, orig, pdhExpand(pdhFullPath(p.counterPath)), 1, f)

\* addItem after the registration a of the original path under handle h.
AddItemAdded(w, p, f, h, a) ==
  IF a.err # nil THEN [w |-> w, err |-> a.err]
  ELSE IF cfg.UseWildcardsExpansion
    THEN AddItemPaths(Added(w, a, h, p.counterPath), p, f,
           Buffered("GetCounterPath", w.hc[p.computer].query.maxBufferSize,
                    FaultAt(f, "getCounterPath", 0)),
           Buffered("ExpandWildCardPath", w.hc[p.computer].query.maxBufferSize,
                    FaultAt(f, "expandWildCardPath", 0)),
           extractCounterInfoFromCounterPath(p.counterPath))
    ELSE [w |-> AppendCounter(Added(w, a, h, p.counterPath), p.computer,
                  newCounter(h, p.counterPath, p.computer, p.objectName, p.instance,
                             p.counterName, p.measurement, p.includeTotal,
                             p.useRawValue)),
          err |-> nil]

\* addItem once the host's entry exists and its query was opened (or was
\* found in the map).
AddItemRegister(w, p, f) ==
  AddItemAdded(w, p, f, NewCounterHandle(w.nc),
    IF ~cfg.vista
      THEN AddCounterToQuery(w.hc[p.computer].query, w.nq, w.nc, FaultAt(f, "add", 0),
                             NewCounterHandle(w.nc))
      ELSE AddEnglishCounterToQuery(w.hc[p.computer].query, w.nq, w.nc,
                                    FaultAt(f, "add", 0), NewCounterHandle(w.nc)))

\* m.hostCounters[computer] = hostCounter, with the query o.q that open just
\* worked on (handle h on success).
Registered(w, p, h, o) ==
  [hc |-> (p.computer :>
             [computer |-> p.computer,
              tag |-> IF p.computer = localhost THEN osHostname ELSE p.computer,
              counters |-> <<>>, query |-> o.q, timestamp |-> ZeroTime]) @@ w.hc,
   nq |-> o.queries, nc |-> o.counters,
   ns |-> IF o.err = nil THEN (h :> "none") @@ w.ns ELSE w.ns,
   np |-> w.np]

AddItemOpened(w, p, f, h, o) ==
  IF o.err # nil THEN [w |-> Registered(w, p, h, o), err |-> o.err]
  ELSE AddItemRegister(Registered(w, p, h, o), p, f)

\* addItem that never looks the host up in the map: a new entry and a new
\* query for every combination.
addItemAlwaysNew(w, p, f) ==
  AddItemOpened(w, p, f, NewQueryHandle(w.nq),
    Open([maxBufferSize |-> cfg.MaxBufferSize, queryHandle |-> 0], w.nq, w.nc,
         errorSuccess, FaultAt(f, "open", 0), NewQueryHandle(w.nq)))

\* addItem: p = [counterPath, computer, objectName, instance, counterName,
\* measurement, includeTotal, useRawValue].
addItem(w, p, f) ==
  IF p.computer \notin DOMAIN w.hc
    THEN AddItemOpened(w, p, f, NewQueryHandle(w.nq),
           Open([maxBufferSize |-> cfg.MaxBufferSize, queryHandle |-> 0], w.nq, w.nc,
                errorSuccess, FaultAt(f, "open", 0), NewQueryHandle(w.nq)))
    ELSE AddItemRegister(w, p, f)

\* The native calls of addItem a fault can be put on.
AddItemFaults ==
  {NoFault}
    \cup [at : {"open"}, k : {0}, code : PdhFailures]
    \cup [at : {"add"}, k : {0}, code : {pdhInvalidData}]
    \cup [at : {"getCounterPath", "expandWildCardPath"}, k : {0},
          code : {pdhInvalidData, pdhMoreData}]
    \cup [at : {"loopAdd", "loopAddFinal"}, k : 1 .. Len(NativeInstances),
          code : {pdhInvalidData}]

\* The combinations parseConfig walks, in its loop order.
ComputersOf(object) ==
  LET cs == IF Len(object.Sources) = 0
              THEN (IF Len(cfg.Sources) = 0 THEN <<localhost>> ELSE cfg.Sources)
              ELSE object.Sources
  IN [k \in 1 .. Len(cs) |-> IF cs[k] = <<>> THEN localhost ELSE cs[k]]

RECURSIVE Flatten(_)
Flatten(ss) == IF ss = <<>> THEN <<>> ELSE Head(ss) \o Flatten(Tail(ss))

ItemsOf(object) ==
  Flatten([a \in 1 .. Len(ComputersOf(object)) |->
    Flatten([b \in 1 .. Len(object.Counters) |->
      [c \in 1 .. Len(object.Instances) |->
         [object |-> object, computer |-> ComputersOf(object)[a],
          counter |-> object.Counters[b], instance |-> object.Instances[c]]]])])

WorkItems == Flatten([o \in 1 .. Len(cfg.Object) |-> ItemsOf(cfg.Object[o])])

\* The arguments parseConfig passes to addItem for one combination.
AddItemArgs(item) ==
  [counterPath |-> formatPath(item.computer, item.object.ObjectName, item.instance,
                              item.counter),
   computer |-> item.computer, objectName |-> item.object.ObjectName,
   instance |-> item.instance, counterName |-> item.counter,
   measurement |-> item.object.Measurement, includeTotal |-> item.object.IncludeTotal,
   useRawValue |-> item.object.UseRawValues]

(***************************************************************************)
(* Gather, step by step.                                                   *)
(***************************************************************************)
World ==
  [hc |-> hostCounters, nq |-> pdhQueries, nc |-> pdhCounters, ns |-> pdhSamples,
   np |-> pdhPaths]

Restrict(f, S) == [x \in (DOMAIN f) \cap S |-> f[x]]

\* checkError
checkError(err) ==
  IF IsPdhError(err) /\ err \in cfg.IgnoredErrors THEN nil ELSE err

\* isKnownCounterDataError that knows no benign error.
NoKnownCounterDataError(err) == FALSE

\* isKnownCounterDataError
isKnownCounterDataError(err) ==
  /\ IsPdhError(err)
  /\ err \in {pdhInvalidData, pdhCalcNegativeDenominator, pdhCalcNegativeValue,
              pdhCstatusInvalidData, pdhCstatusNoInstance, pdhNoData}

\* shouldIncludeMetric
shouldIncludeMetric(metric, cValue) ==
  \/ metric.includeTotal
  \/ metric.instance = star /\ ~Contains(cValue.instanceName, totalInstance)
  \/ metric.instance = cValue.instanceName
  \/ metric.instance = emptyInstance

\* addCounterMeasurement
GroupOf(metric, instanceName) ==
  [name |-> metric.measurement, instance |-> instanceName, objectName |-> metric.objectName]

FieldsOf(collectFields, instance) ==
  IF instance \in DOMAIN collectFields THEN collectFields[instance] ELSE EmptyMap

\* A map write that keeps the value a field already has.
SetFieldKeepFirst(collectFields, instance, field, value) ==
  (instance :> (FieldsOf(collectFields, instance) @@ (field :> value))) @@ collectFields

SetField(collectFields, instance, field, value) ==
  (instance :> ((field :> value) @@ FieldsOf(collectFields, instance))) @@ collectFields

addCounterMeasurement(metric, instanceName, value, collectFields) ==
  SetField(collectFields, GroupOf(metric, instanceName),
           Replace(sanitizedChars, metric.counter), value)

\* One iteration of the loop of cleanQueries: close the query of `computer`;
\* c is what Close returned.
CleanClosed(w, computer, c) ==
  [w |-> [hc |-> [w.hc EXCEPT ![computer].query = c.q], nq |-> c.queries,
          nc |-> c.counters, ns |-> Restrict(w.ns, c.queries),
          np |-> Restrict(w.np, {r[2] : r \in c.counters})],
   err |-> c.err]

\* The iteration of cleanQueries without the close.
CleanHostWithoutClose(w, computer, ret) == [w |-> w, err |-> nil]

CleanHost(w, computer, ret) ==
  CleanClosed(w, computer, Close(w.hc[computer].query, w.nq, w.nc, ret))

\* No delay at all.
NoSleep(ns) == ns

\* time.Sleep(time.Second), seen from the native side: a sample taken before
\* it is now at least a second old.
Sleep(ns) == [h \in DOMAIN ns |-> IF ns[h] = "one" THEN "aged" ELSE ns[h]]

\* PdhCollectQueryData on a query: what it has sampled afterwards.  "two"
\* stands for two samples at least a second apart.
Collected(sample) ==
  IF sample = "none" THEN "one" ELSE IF sample = "aged" THEN "two" ELSE sample

\* The return of a native call on query handle h that may be made to fail.
FaultRets(h) == IF h \in pdhQueries THEN PdhRets ELSE PdhFailures

\* A native call misbehaved on `computer` in this Gather call.
Fault(hit, computer) ==
  /\ faults' = IF hit THEN faults + 1 ELSE faults
  /\ hostFailed' = IF hit THEN hostFailed \cup {computer} ELSE hostFailed

\* Gather returns err from phase gPc.
GatherReturns(err) ==
  /\ gRet' = err
  /\ gLast' = gPc
  /\ gPc' = "idle"
  /\ gTodo' = {}

\* Init's loop over the objects: a wildcard in an object name or a counter.
HasWildcards(object) ==
  \E wildcard \in {<<"*">>, <<"?">>} :
    \/ Contains(object.ObjectName, wildcard)
    \/ \E k \in 1 .. Len(object.Counters) : Contains(object.Counters[k], wildcard)

\* Init: the error it returns for configuration m, or nil.
WinPerfCountersInit(m) ==
  IF m.MaxBufferSize < initialBufferSize
    THEN "maximum buffer size should at least be 2048"
  ELSE IF m.MaxBufferSize > MaxUint
    THEN "maximum buffer size should be smaller than MaxUint32"
  ELSE IF /\ m.UseWildcardsExpansion
          /\ ~m.LocalizeWildcardsExpansion
          /\ \E k \in 1 .. Len(m.Object) : HasWildcards(m.Object[k])
    THEN "wildcards can't be used with LocalizeWildcardsExpansion=false"
  ELSE nil

\* The caller runs Init once, before its first Gather; the example main calls
\* Gather whatever Init returned.
InitCall ==
  /\ gPc = "new"
  /\ gPc' = "idle"
  /\ gRet' = WinPerfCountersInit(cfg)
  /\ UNCHANGED <<cfg, lastRefreshed, hostCounters, pdhSamples, gTodo, gItem, gRefreshed,
                 gOld, gLast, tasks, emitted, hostFailed, faults, pdhQueries, pdhCounters>>
  /\ UNCHANGED <<collectorFrame, pdhPaths>>

\* A refresh condition that is true only while no refresh has succeeded.
NeedsRefreshFirstOnly(last, interval) == last.isZero

\* The refresh condition at the entry of Gather.
NeedsRefresh(last, interval) ==
  \/ last.isZero
  \/ interval > 0 /\ last.age > interval

\* Entry of Gather: the refresh condition.
GatherStart ==
  /\ gPc = "idle"
  /\ gPc' = IF NeedsRefresh(lastRefreshed, cfg.CountersRefreshInterval)
              THEN "clean" ELSE "sample"
  /\ gOld' = IF NeedsRefresh(lastRefreshed, cfg.CountersRefreshInterval)
               THEN {hostCounters[c].query.queryHandle : c \in DOMAIN hostCounters} \ {0}
               ELSE {}
  /\ gTodo' = DOMAIN hostCounters
  /\ gRefreshed' = FALSE
  /\ tasks' = EmptyMap
  /\ emitted' = {}
  /\ hostFailed' = {}
  /\ hostCounters' = [c \in DOMAIN hostCounters |->
                        [hostCounters[c] EXCEPT !.timestamp.call = "earlier"]]
  /\ UNCHANGED <<cfg, lastRefreshed, pdhSamples, gItem, gRet, gLast, faults, pdhQueries,
                 pdhCounters>>
  /\ UNCHANGED <<collectorFrame, pdhPaths>>

\* A teardown that goes on to the next host when a close fails.
CleanApplyIgnoreError(computer, ret, r) ==
  /\ hostCounters' = r.w.hc
  /\ pdhQueries' = r.w.nq
  /\ pdhCounters' = r.w.nc
  /\ pdhSamples' = r.w.ns
  /\ pdhPaths' = r.w.np
  /\ Fault(ret # errorSuccess, computer)
  /\ gTodo' = gTodo \ {computer}
  /\ UNCHANGED <<gPc, gRet, gLast>>

\* cleanQueries: the range loop visits the hosts in any order.
CleanApply(computer, ret, r) ==
  /\ hostCounters' = r.w.hc
  /\ pdhQueries' = r.w.nq
  /\ pdhCounters' = r.w.nc
  /\ pdhSamples' = r.w.ns
  /\ pdhPaths' = r.w.np
  /\ Fault(ret # errorSuccess, computer)
  /\ IF r.err # nil
       THEN GatherReturns(r.err)
       ELSE /\ gTodo' = gTodo \ {computer}
            /\ UNCHANGED <<gPc, gRet, gLast>>

CleanStep ==
  /\ gPc = "clean"
  /\ \E computer \in gTodo, ret \in PdhRets :
       /\ hostCounters[computer].query.queryHandle # 0 =>
            ret \in FaultRets(hostCounters[computer].query.queryHandle)
       /\ hostCounters[computer].query.queryHandle = 0 => ret = errorSuccess
       /\ ret # errorSuccess => faults < MaxFaults
       /\ CleanApply(computer, ret, CleanHost(World, computer, ret))
  /\ UNCHANGED <<cfg, lastRefreshed, gItem, gRefreshed, gOld, tasks, emitted>>
  /\ UNCHANGED collectorFrame

\* cleanQueries: m.hostCounters = nil; then parseConfig begins.
CleanDone ==
  /\ gPc = "clean"
  /\ gTodo = {}
  /\ hostCounters' = EmptyMap
  /\ IF Len(cfg.Object) = 0
       THEN /\ gPc' = "idle"
            /\ gRet' = "no performance objects configured"
            /\ gLast' = "parse"
       ELSE /\ gPc' = "parse"
            /\ UNCHANGED <<gRet, gLast>>
  /\ gItem' = 1
  /\ UNCHANGED <<cfg, lastRefreshed, pdhSamples, gTodo, gRefreshed, gOld, tasks,
                 emitted, hostFailed, faults, pdhQueries, pdhCounters>>
  /\ UNCHANGED <<collectorFrame, pdhPaths>>

\* A policy that aborts the pass on every registration error.
AbortsOnAnyError(object, err) == err # nil

\* parseConfig's policy on the error of one addItem call: return it when the
\* object has FailOnMissing, go on otherwise.
AbortsOnMissing(object, err) == err # nil /\ object.FailOnMissing

\* parseConfig: one addItem call (r; r0 is the call with a healthy native
\* side, which tells whether the faulty native call is made at all) and the
\* policy on its error.
ParseApply(item, f, r, r0) ==
  /\ f # NoFault => (faults < MaxFaults /\ r # r0)
  /\ hostCounters' = r.w.hc
  /\ pdhQueries' = r.w.nq
  /\ pdhCounters' = r.w.nc
  /\ pdhSamples' = r.w.ns
  /\ pdhPaths' = r.w.np
  /\ Fault(f # NoFault, item.computer)
  /\ IF AbortsOnMissing(item.object, r.err)
       THEN /\ GatherReturns(r.err)
            /\ UNCHANGED gItem
       ELSE /\ gItem' = gItem + 1
            /\ UNCHANGED <<gPc, gTodo, gRet, gLast>>

ParseItem(item, p) ==
  \E f \in AddItemFaults :
    ParseApply(item, f, addItem(World, p, f), addItem(World, p, NoFault))

ParseStep ==
  /\ gPc = "parse"
  /\ gItem <= Len(WorkItems)
  /\ ParseItem(WorkItems[gItem], AddItemArgs(WorkItems[gItem]))
  /\ UNCHANGED <<cfg, lastRefreshed, gRefreshed, gOld, tasks, emitted>>
  /\ UNCHANGED collectorFrame

\* parseConfig returned nil: the priming loop begins.
ParseDone ==
  /\ gPc = "parse"
  /\ gItem > Len(WorkItems)
  /\ gPc' = "prime"
  /\ gTodo' = DOMAIN hostCounters
  /\ UNCHANGED <<cfg, lastRefreshed, hostCounters, pdhSamples, gItem, gRet, gRefreshed, gOld, gLast, tasks, emitted, hostFailed, faults, pdhQueries,
                 pdhCounters>>
  /\ UNCHANGED <<collectorFrame, pdhPaths>>

\* A priming loop that goes on to the next host when the ignore-list
\* suppresses the error.
PrimeApplySkipIgnored(computer, q, ret, r) ==
  /\ q.queryHandle = 0 => ret = errorSuccess
  /\ ret # errorSuccess => faults < MaxFaults
  /\ Fault(ret # errorSuccess, computer)
  /\ IF r.err # nil /\ checkError(r.err) # nil
       THEN /\ GatherReturns(checkError(r.err))
            /\ UNCHANGED pdhSamples
       ELSE /\ pdhSamples' = IF r.err = nil
                               THEN [pdhSamples EXCEPT ![q.queryHandle] = Collected(@)]
                               ELSE pdhSamples
            /\ gTodo' = gTodo \ {computer}
            /\ UNCHANGED <<gPc, gRet, gLast>>

\* The priming loop: collectData on one host's query.
PrimeApply(computer, q, ret, r) ==
  /\ q.queryHandle = 0 => ret = errorSuccess
  /\ ret # errorSuccess => faults < MaxFaults
  /\ Fault(ret # errorSuccess, computer)
  /\ IF r.err # nil
       THEN /\ GatherReturns(checkError(r.err))
            /\ UNCHANGED pdhSamples
       ELSE /\ pdhSamples' = [pdhSamples EXCEPT ![q.queryHandle] = Collected(@)]
            /\ gTodo' = gTodo \ {computer}
            /\ UNCHANGED <<gPc, gRet, gLast>>

PrimeStep ==
  /\ gPc = "prime"
  /\ \E computer \in gTodo, ret \in PdhRets :
       PrimeApply(computer, hostCounters[computer].query, ret,
                  CollectData(hostCounters[computer].query, ret))
  /\ UNCHANGED <<cfg, lastRefreshed, hostCounters, gItem, gRefreshed, gOld, tasks,
                 emitted, pdhQueries, pdhCounters>>
  /\ UNCHANGED <<collectorFrame, pdhPaths>>

\* m.lastRefreshed = time.Now(); time.Sleep(time.Second)
PrimeDone ==
  /\ gPc = "prime"
  /\ gTodo = {}
  /\ lastRefreshed' = [isZero |-> FALSE, age |-> 1]
  /\ pdhSamples' = Sleep(pdhSamples)
  /\ gRefreshed' = TRUE
  /\ gPc' = "sample"
  /\ gTodo' = DOMAIN hostCounters
  /\ UNCHANGED <<cfg, hostCounters, gItem, gRet, gOld, gLast, tasks, emitted,
                 hostFailed, faults, pdhQueries, pdhCounters>>
  /\ UNCHANGED <<collectorFrame, pdhPaths>>

\* The sample loop: one host's timestamp and sample.
SampleApply(computer, q, ret, withTime, r) ==
  /\ q.queryHandle = 0 => ret = errorSuccess
  /\ ret # errorSuccess => faults < MaxFaults
  /\ Fault(ret # errorSuccess, computer)
  /\ hostCounters' =
       [hostCounters EXCEPT ![computer].timestamp =
          [src |-> IF withTime /\ r.err = nil THEN "pdh" ELSE "now", call |-> "this",
           by |-> IF withTime THEN "collectDataWithTime" ELSE "collectData"]]
  /\ IF r.err # nil
       THEN /\ GatherReturns(r.err)
            /\ UNCHANGED pdhSamples
       ELSE /\ pdhSamples' = [pdhSamples EXCEPT ![q.queryHandle] = Collected(@)]
            /\ gTodo' = gTodo \ {computer}
            /\ UNCHANGED <<gPc, gRet, gLast>>

\* The timed sample whatever the query supports.
PerfCounterTimeAnyQuery(m) == m.UsePerfCounterTime

\* if m.UsePerfCounterTime && hostCounterSet.query.isVistaOrNewer()
PerfCounterTime(m) == m.UsePerfCounterTime /\ m.vista

SampleStep ==
  /\ gPc = "sample"
  /\ \E computer \in gTodo, ret \in PdhRets :
       SampleApply(computer, hostCounters[computer].query, ret,
                   PerfCounterTime(cfg),
                   IF PerfCounterTime(cfg)
                     THEN CollectDataWithTime(hostCounters[computer].query, ret)
                     ELSE CollectData(hostCounters[computer].query, ret))
  /\ UNCHANGED <<cfg, lastRefreshed, gItem, gRefreshed, gOld, tasks, emitted,
                 pdhQueries, pdhCounters>>
  /\ UNCHANGED <<collectorFrame, pdhPaths>>

\* A goroutine that reads the loop variable instead of its argument: every
\* goroutine may see the same entry.
LoopVariableCaptured(hc, computer) == CHOOSE c \in DOMAIN hc : TRUE

\* go func(hostInfo *hostCountersInfo) {...}(hostCounterInfo): the entry a
\* goroutine works on is the one of the iteration that started it.
hostInfoArg(hc, computer) == computer

SampleDone ==
  /\ gPc = "sample"
  /\ gTodo = {}
  /\ gPc' = "read"
  /\ tasks' = [c \in DOMAIN hostCounters |->
                 [hostInfo |-> hostInfoArg(hostCounters, c), pc |-> "run", i |-> 1,
                  fields |-> EmptyMap, err |-> nil, read |-> {}, kept |-> {},
                  errs |-> {}, log |-> <<>>]]
  /\ UNCHANGED <<cfg, lastRefreshed, hostCounters, pdhSamples, gTodo, gItem, gRet,
                 gRefreshed, gOld, gLast, emitted, hostFailed, faults, pdhQueries,
                 pdhCounters>>
  /\ UNCHANGED <<collectorFrame, pdhPaths>>

(***************************************************************************)
(* gatherComputerCounters: one goroutine per host.                         *)
(***************************************************************************)
\* The items the native side has for a registered path; item 1 carries an
\* invalid status when badItem.
ItemsNamed(names, counterHandle, badItem) ==
  [k \in 1 .. Len(names) |->
     [instanceName |-> names[k], value |-> [c |-> counterHandle, k |-> k],
      CStatus |-> IF badItem /\ k = 1 THEN pdhCstatusInvalidData
                  ELSE pdhCstatusValidData]]

\* The names the native side returns for an instance: every instance for a
\* wildcard; for a multiple-instance identifier such as w#1 the identifier
\* cut short (w, w#) and the name of another process in between.
InstancesOf(e) ==
  IF e.instance = star THEN NativeInstances
  ELSE IF Contains(e.instance, <<"#">>)
    THEN <<SubSeq(e.instance, 1, 1), <<"x">>, SubSeq(e.instance, 1, 2)>>
  ELSE <<e.instance>>

pdhArrayItems(counterPath, counterHandle, badItem) ==
  ItemsNamed(InstancesOf(extractCounterInfoFromCounterPath(counterPath)), counterHandle,
             badItem)

\* The instance name as the native side returned it.
InstanceNameAsReturned(metric, cValue) == cValue.instanceName

\* if strings.Contains(metric.instance, "#") &&
\*    strings.HasPrefix(metric.instance, cValue.instanceName)
InstanceNameOf(metric, cValue) ==
  IF Contains(metric.instance, <<"#">>) /\ HasPrefix(metric.instance, cValue.instanceName)
    THEN metric.instance ELSE cValue.instanceName

AddValue(metric, cValue, instanceName, collectedFields) ==
  IF shouldIncludeMetric(metric, [cValue EXCEPT !.instanceName = instanceName])
    THEN addCounterMeasurement(metric, instanceName, cValue.value, collectedFields)
    ELSE collectedFields

RECURSIVE AddValues(_, _, _)
AddValues(metric, counterValues, collectedFields) ==
  IF counterValues = <<>> THEN collectedFields
  ELSE AddValues(metric, Tail(counterValues),
                 AddValue(metric, Head(counterValues),
                          InstanceNameOf(metric, Head(counterValues)), collectedFields))

\* The calls of addCounterMeasurement one iteration makes, as
\* [group, field, value], in order.
WriteOf(metric, instanceName, value) ==
  [group |-> GroupOf(metric, instanceName),
   field |-> Replace(sanitizedChars, metric.counter), value |-> value]

RECURSIVE WritesOf(_, _)
WritesOf(metric, counterValues) ==
  IF counterValues = <<>> THEN <<>>
  ELSE (IF shouldIncludeMetric(metric,
             [Head(counterValues) EXCEPT
                !.instanceName = InstanceNameOf(metric, Head(counterValues))])
          THEN <<WriteOf(metric, InstanceNameOf(metric, Head(counterValues)),
                         Head(counterValues).value)>>
          ELSE <<>>)
       \o WritesOf(metric, Tail(counterValues))

\* One iteration of the loop over the host's counters with wildcard
\* expansion: a scalar read; r is what the wrapper returned.
ReadScalar(metric, collectedFields, r) ==
  [err |-> r.err,
   writes |-> IF r.err = nil
                THEN <<WriteOf(metric, metric.instance,
                               [c |-> metric.counterHandle, k |-> 0])>>
                ELSE <<>>,
   fields |-> IF r.err = nil
                THEN addCounterMeasurement(metric, metric.instance,
                       [c |-> metric.counterHandle, k |-> 0], collectedFields)
                ELSE collectedFields]

\* ... and without: an array read that returned err.
ReadArray(metric, collectedFields, err, badItem) ==
  [err |-> err,
   writes |-> IF err = nil
                THEN WritesOf(metric,
                       CounterValues(pdhArrayItems(metric.counterPath,
                                                   metric.counterHandle, badItem)))
                ELSE <<>>,
   fields |-> IF err = nil
                THEN AddValues(metric,
                       CounterValues(pdhArrayItems(metric.counterPath,
                                                   metric.counterHandle, badItem)),
                       collectedFields)
                ELSE collectedFields]

\* The native return and sample status of a scalar read under fault code c.
ScalarRet(c) == IF c \in PdhFailures THEN c ELSE errorSuccess
ScalarCStatus(c) == IF c = pdhCstatusInvalidData THEN c ELSE pdhCstatusValidData

\* One iteration of the loop over the host's counters, the native side
\* misbehaving as code c says: the error of the read, and the fields after.
ReadMetric(hostCounterInfo, metric, collectedFields, c) ==
  IF cfg.UseWildcardsExpansion
    THEN ReadScalar(metric, collectedFields,
           IF metric.useRawValue
             THEN GetRawCounterValue(hostCounterInfo.query, ScalarRet(c), ScalarCStatus(c))
             ELSE GetFormattedCounterValueDouble(hostCounterInfo.query, ScalarRet(c),
                                                 ScalarCStatus(c)))
    ELSE ReadArray(metric, collectedFields,
           Buffered(IF metric.useRawValue THEN "GetRawCounterArray"
                    ELSE "GetFormattedCounterArrayDouble",
                    hostCounterInfo.query.maxBufferSize,
                    IF c = pdhCstatusInvalidData THEN errorSuccess ELSE c),
           c = pdhCstatusInvalidData)

\* The ways the native side may misbehave on one read.
ReadFaults ==
  IF cfg.UseWildcardsExpansion
    THEN {errorSuccess, pdhInvalidHandle, pdhInvalidData, pdhCstatusInvalidData}
    ELSE {errorSuccess, pdhInvalidHandle, pdhInvalidData, pdhCstatusInvalidData,
          pdhMoreData}

\* A host's goroutine reads its next counter: r is the outcome of the
\* iteration, which ends the goroutine unless the error is a known one.
ReadApply(computer, t, c, r, known) ==
  /\ c # errorSuccess => faults < MaxFaults
  /\ Fault(c # errorSuccess, t.hostInfo)
  /\ tasks' =
       [tasks EXCEPT ![computer] =
          IF r.err # nil /\ ~known
            THEN [t EXCEPT !.pc = "failed", !.err = r.err,
                           !.errs = @ \cup {[i |-> t.i, err |-> r.err]}]
            ELSE [t EXCEPT !.i = t.i + 1, !.fields = r.fields,
                           !.log = @ \o r.writes,
                           !.read = IF r.err = nil THEN @ \cup {t.i} ELSE @,
                           !.kept = IF r.fields # t.fields THEN @ \cup {t.i} ELSE @,
                           !.errs = IF r.err # nil
                                      THEN @ \cup {[i |-> t.i, err |-> r.err]} ELSE @]]

\* A pass that skips the counter and goes on whatever the error of the read.
ReadNextGoesOn(computer, t, c, r) == ReadApply(computer, t, c, r, TRUE)

\* if !isKnownCounterDataError(err) { return fmt.Errorf(...) }; continue
ReadNext(computer, t, c, r) == ReadApply(computer, t, c, r, isKnownCounterDataError(r.err))

ReadStep ==
  /\ gPc = "read"
  /\ \E computer \in DOMAIN tasks, c \in ReadFaults :
       /\ tasks[computer].pc = "run"
       /\ tasks[computer].i <= Len(hostCounters[tasks[computer].hostInfo].counters)
       /\ ReadNext(computer, tasks[computer], c,
                   ReadMetric(hostCounters[tasks[computer].hostInfo],
                              hostCounters[tasks[computer].hostInfo].counters[tasks[computer].i],
                              tasks[computer].fields, c))
  /\ UNCHANGED <<cfg, lastRefreshed, hostCounters, pdhSamples, gPc, gTodo, gItem, gRet,
                 gRefreshed, gOld, gLast, emitted, pdhQueries, pdhCounters>>
  /\ UNCHANGED <<collectorFrame, pdhPaths>>

\* Tags with the instance tag whatever the instance.
TagsAlwaysInstance(instance, tag) ==
  ("objectname" :> instance.objectName) @@ ("instance" :> instance.instance)
    @@ (IF Len(tag) > 0 THEN "source" :> tag ELSE EmptyMap)

\* The tags of the record of one group.
Tags(instance, tag) ==
  ("objectname" :> instance.objectName)
    @@ (IF Len(instance.instance) > 0 THEN "instance" :> instance.instance ELSE EmptyMap)
    @@ (IF Len(tag) > 0 THEN "source" :> tag ELSE EmptyMap)

\* A host's goroutine is past its counters: one m.collect call per group.
Records(computer, t, info) ==
  {[measurement |-> instance.name, fields |-> t.fields[instance],
    tags |-> Tags(instance, info.tag), timestamp |-> info.timestamp,
    computer |-> computer] : instance \in DOMAIN t.fields}

TaskEmit ==
  /\ gPc = "read"
  /\ \E computer \in DOMAIN tasks :
       /\ tasks[computer].pc = "run"
       /\ tasks[computer].i > Len(hostCounters[tasks[computer].hostInfo].counters)
       /\ emitted' = emitted \cup Records(tasks[computer].hostInfo, tasks[computer],
                                         hostCounters[tasks[computer].hostInfo])
       /\ tasks' = [tasks EXCEPT ![computer].pc = "done"]
  /\ UNCHANGED <<cfg, lastRefreshed, hostCounters, pdhSamples, gPc, gTodo, gItem, gRet,
                 gRefreshed, gOld, gLast, hostFailed, faults, pdhQueries,
                 pdhCounters>>
  /\ UNCHANGED <<collectorFrame, pdhPaths>>

\* A wait that does not wait.
NoWait(ts) == TRUE

\* wg.Wait(): every goroutine has called wg.Done().
wgWait(ts) == \A computer \in DOMAIN ts : ts[computer].pc # "run"

\* wg.Wait() is over: Gather returns nil whatever the goroutines returned.
GatherReturn ==
  /\ gPc = "read"
  /\ wgWait(tasks)
  /\ GatherReturns(nil)
  /\ UNCHANGED <<cfg, lastRefreshed, hostCounters, pdhSamples, gItem, gRefreshed,
                 gOld, tasks, emitted, hostFailed, faults, pdhQueries, pdhCounters>>
  /\ UNCHANGED <<collectorFrame, pdhPaths>>

\* A second passes between two Gather calls (the age of the last refresh is
\* counted until it exceeds the refresh interval).
Tick ==
  /\ gPc = "idle"
  /\ ~lastRefreshed.isZero
  /\ lastRefreshed.age <= cfg.CountersRefreshInterval
  /\ lastRefreshed' = [lastRefreshed EXCEPT !.age = @ + 1]
  /\ pdhSamples' = Sleep(pdhSamples)
  /\ UNCHANGED <<cfg, hostCounters, gPc, gTodo, gItem, gRet, gRefreshed, gOld,
                 gLast, tasks, emitted, hostFailed, faults, pdhQueries, pdhCounters>>
  /\ UNCHANGED <<collectorFrame, pdhPaths>>

\* NewWinPerfCounters and a decoded configuration; no Gather call yet.
InitGather ==
  /\ cfg \in GatherConfigs
  /\ lastRefreshed = [isZero |-> TRUE, age |-> 0]
  /\ hostCounters = EmptyMap
  /\ pdhSamples = EmptyMap
  /\ pdhPaths = EmptyMap
  /\ gPc = "new"
  /\ gTodo = {}
  /\ gItem = 0
  /\ gRet = "none"
  /\ gRefreshed = FALSE
  /\ gOld = {}
  /\ gLast = "none"
  /\ tasks = EmptyMap
  /\ emitted = {}
  /\ hostFailed = {}
  /\ faults = 0
  /\ pdhQueries = {}
  /\ pdhCounters = {}
  /\ query = [maxBufferSize |-> initialBufferSize, queryHandle |-> 0]
  /\ qOp = "new"
  /\ qPre = 0
  /\ qErr = nil
  /\ qCalls = <<>>
  /\ BufLocals
  /\ NoPath

NextGather ==
  \/ InitCall
  \/ GatherStart
  \/ CleanStep
  \/ CleanDone
  \/ ParseStep
  \/ ParseDone
  \/ PrimeStep
  \/ PrimeDone
  \/ SampleStep
  \/ SampleDone
  \/ ReadStep
  \/ TaskEmit
  \/ GatherReturn
  \/ Tick

SpecGather == InitGather /\ [][NextGather]_vars

(***************************************************************************)
(* The pure functions on their own: formatPath,                            *)
(* extractCounterInfoFromCounterPath and newCounter, each applied to one   *)
(* input drawn from a bounded set.                                         *)
(***************************************************************************)
MaxNameLen == 1
MaxPathLen == 5
MaxTokens == 2
MaxItems == 2

\* The strings of at most n characters over chars.
Strings(chars, n) == UNION {[1 .. k -> chars] : k \in 0 .. n}

\* Names for formatPath: short ones with and without parentheses, and two
\* longer ones without reserved characters.
NameChars == {"a", "(", ")"}
Names == Strings(NameChars, MaxNameLen) \cup {<<"a", "b">>, <<"M", "e", "m">>}
Hosts == {<<>>, localhost, remoteHost, <<"(">>}
\* Instance names that hold nested parentheses, and backslashes inside them
\* (process names): a(b)\c, (), \, (\).
NestedInstances ==
  {<<"a", "(", "b", ")", "\\", "c">>, <<"(", ")">>, <<"\\">>, <<"(", "\\", ")">>}
Instances == Names \cup {emptyInstance} \cup NestedInstances

\* Paths for extractCounterInfoFromCounterPath.
PathChars == {"a", "\\", "(", ")"}

\* Names for newCounter: concatenations of the strings sanitizedChars
\* replaces and of others it leaves alone, and the README's two examples.
Tokens ==
  {<<"a">>, <<"/", "s", "e", "c">>, <<"/", "S", "e", "c">>, <<" ">>, <<"%">>, <<"\\">>,
   <<"(">>, <<")">>, <<"/">>}
ProcessorTime ==
  <<"%", " ", "P", "r", "o", "c", "e", "s", "s", "o", "r", " ", "T", "i", "m", "e">>
DiskReadBytes ==
  <<"D", "i", "s", "k", " ", "R", "e", "a", "d", " ", "B", "y", "t", "e", "s", "/", "s",
    "e", "c">>
TokenStrings == {Flatten(ts) : ts \in Strings(Tokens, MaxTokens)}
CounterNames == TokenStrings \cup {ProcessorTime, DiskReadBytes}
Measurements == {<<>>, <<"m">>, <<"m", "(", "\\", "/", "s", "e", "c">>}

\* The native answers to a scalar read, and the items the native side may
\* write for an array read: up to MaxItems items, each with a sample status.
ScalarInputs ==
  [kind : {"scalar"}, raw : BOOLEAN, queryHandle : 0 .. 1, ret : PdhRets,
   cstatus : PdhCStatuses]
NativeItems ==
  UNION {{[k \in 1 .. n |-> [instanceName |-> k, value |-> k, CStatus |-> st[k]]] :
            st \in [1 .. n -> PdhCStatuses]} : n \in 0 .. MaxItems}
ArrayInputs ==
  [kind : {"array"}, raw : BOOLEAN, maxBufferSize : MaxBufferSizes,
   c : {errorSuccess, pdhInvalidHandle, pdhMoreData}, items : NativeItems]

PathInputs ==
  [kind : {"formatPath"}, computer : Hosts, objectName : Names, instance : Instances,
   counter : Names]
\* \Obj(a(b)\c)\Ctr, without and with a host.
NestedPath ==
  <<"\\", "O", "b", "j", "(", "a", "(", "b", ")", "\\", "c", ")", "\\", "C", "t", "r">>
RawInputs ==
  [kind : {"extract"},
   counterPath : Strings(PathChars, MaxPathLen)
                   \cup {NestedPath, <<"\\", "\\", "h">> \o NestedPath}]
NameInputs ==
  [kind : {"newCounter"}, counterName : CounterNames, measurement : Measurements,
   useRawValue : BOOLEAN]

InitPath ==
  /\ pIn \in PathInputs \cup RawInputs \cup NameInputs \cup ScalarInputs \cup ArrayInputs
  /\ pOp = "new"
  /\ pOut = "none"
  /\ pdhQueries = {}
  /\ pdhCounters = {}
  /\ query = [maxBufferSize |-> initialBufferSize, queryHandle |-> 0]
  /\ qOp = "new"
  /\ qPre = 0
  /\ qErr = nil
  /\ qCalls = <<>>
  /\ BufLocals
  /\ NoCollector

\* path := formatPath(computer, objectName, instance, counter)
DoFormatPath ==
  /\ pOp = "new"
  /\ pIn.kind = "formatPath"
  /\ pOp' = "formatPath"
  /\ pOut' = formatPath(pIn.computer, pIn.objectName, pIn.instance, pIn.counter)
  /\ UNCHANGED <<pIn, wrapperVars, gatherVars>>

\* extractCounterInfoFromCounterPath(path) on the path just formatted.
DoRoundTrip ==
  /\ pOp = "formatPath"
  /\ pOp' = "roundTrip"
  /\ pOut' = extractCounterInfoFromCounterPath(pOut)
  /\ UNCHANGED <<pIn, wrapperVars, gatherVars>>

\* extractCounterInfoFromCounterPath(counterPath) on any path.
DoExtract ==
  /\ pOp = "new"
  /\ pIn.kind = "extract"
  /\ pOp' = "extract"
  /\ pOut' = extractCounterInfoFromCounterPath(pIn.counterPath)
  /\ UNCHANGED <<pIn, wrapperVars, gatherVars>>

\* newCounter(...) for a counter name and a measurement name.
DoNewCounter ==
  /\ pOp = "new"
  /\ pIn.kind = "newCounter"
  /\ pOp' = "newCounter"
  /\ pOut' = newCounter(1, <<>>, localhost, <<"O">>, <<>>, pIn.counterName,
                        pIn.measurement, FALSE, pIn.useRawValue)
  /\ UNCHANGED <<pIn, wrapperVars, gatherVars>>

\* GetRawCounterValue or GetFormattedCounterValueDouble, the native side
\* answering ret with sample status cstatus.
DoScalarRead ==
  /\ pOp = "new"
  /\ pIn.kind = "scalar"
  /\ pOp' = "scalar"
  /\ pOut' = IF pIn.raw
               THEN GetRawCounterValue([maxBufferSize |-> initialBufferSize,
                                        queryHandle |-> pIn.queryHandle],
                                       pIn.ret, pIn.cstatus)
               ELSE GetFormattedCounterValueDouble([maxBufferSize |-> initialBufferSize,
                                                    queryHandle |-> pIn.queryHandle],
                                                   pIn.ret, pIn.cstatus)
  /\ UNCHANGED <<pIn, wrapperVars, gatherVars>>

\* GetRawCounterArray or GetFormattedCounterArrayDouble, the native side
\* writing pIn.items once the buffer is large enough.
DoArrayRead ==
  /\ pOp = "new"
  /\ pIn.kind = "array"
  /\ pOp' = "array"
  /\ pOut' = ArrayRead(IF pIn.raw THEN "GetRawCounterArray"
                       ELSE "GetFormattedCounterArrayDouble",
                       pIn.maxBufferSize, pIn.c, pIn.items)
  /\ UNCHANGED <<pIn, wrapperVars, gatherVars>>

NextPath ==
  \/ DoFormatPath
  \/ DoRoundTrip
  \/ DoExtract
  \/ DoNewCounter
  \/ DoScalarRead
  \/ DoArrayRead

SpecPath == InitPath /\ [][NextPath]_vars

(***************************************************************************)
(* Properties of the query wrapper, checked under Spec.                    *)
(***************************************************************************)
\* A buffer-sized call has returned.
BufReturned == qOp \in BufferedCalls /\ bufPc = "idle"

\* C1: the query is Closed (handle 0) or Open; a successful Open leaves it
\* Open, and on an already Open query it first closes the context held and
\* then acquires one; a successful Close leaves it Closed; the native side
\* never holds a context other than the one the query's handle names.
C1_QueryLifecycle ==
  /\ query.queryHandle = 0 \/ query.queryHandle \in pdhQueries
  /\ pdhQueries \subseteq {query.queryHandle}
  /\ (qOp = "Open" /\ qErr = nil) =>
       /\ query.queryHandle # 0
       /\ qCalls = IF qPre # 0 THEN <<"pdhCloseQuery", "pdhOpenQuery">>
                              ELSE <<"pdhOpenQuery">>
  /\ (qOp = "Close" /\ qPre # 0 /\ qErr = nil) => query.queryHandle = 0

C1_Witness == qOp = "Open" /\ qPre # 0 /\ qErr = nil /\ query.queryHandle \in pdhQueries

\* C2: on a Closed query, Close, AddCounterToQuery, AddEnglishCounterToQuery
\* and CollectData return the uninitialized-query sentinel, call nothing
\* native and leave the query Closed.
C2_ClosedQuerySentinel ==
  (qPre = 0 /\ qOp \in {"Close", "AddCounterToQuery", "AddEnglishCounterToQuery",
                        "CollectData"}) =>
    /\ qErr = errUninitializedQuery
    /\ qCalls = <<>>
    /\ query.queryHandle = 0

C2_Witness ==
  qOp = "CollectData" /\ qPre = 0 /\ qErr = errUninitializedQuery /\ pdhQueries = {}

\* C3: every operation other than Open attempted on a Closed query reports
\* the uninitialized-query sentinel, never a native error (or a result).
C3_EveryCallSentinel ==
  (qPre = 0 /\ qOp \notin {"new", "Open"} /\ qErr # "pending") =>
    qErr = errUninitializedQuery

(***************************************************************************)
(* Properties of the buffer-growth loop, checked under Spec.               *)
(***************************************************************************)
\* C4: the loop ends with a result, a native error or "buffer limit
\* reached", and no attempt is made with a buffer larger than the maximum.
C4_LoopEndsWithinMax ==
  /\ BufReturned => (qErr \in {nil, errBufferLimitReached} \/ IsPdhError(qErr))
  /\ qOp \in BufferedCalls => bufPrev.len <= query.maxBufferSize

\* C5: against a native side that follows the two-phase convention (more
\* data with the required size, then success), a required size within the
\* maximum ends in success after the minimum number of attempts.  Stated
\* for required sizes whose double still fits the integer width.
C5_SucceedsWithinMax ==
  (BufReturned /\ bufN >= 1 /\ bufWell /\ bufRequired <= query.maxBufferSize
     /\ 2 * bufRequired < Modulus) =>
    /\ qErr = nil
    /\ bufN = IF bufRequired <= initialBufferSize THEN 1 ELSE 2

\* C6: after a "more data" response whose reported size exceeds the next
\* doubling step, the next attempt uses exactly the reported size.  Stated
\* for reported sizes whose double still fits the integer width.
C6_JumpsToReportedSize ==
  (qOp \in BufferedCalls /\ bufPc = "loop" /\ bufN >= 1
     /\ bufPrev.size > 2 * bufPrev.len /\ 2 * bufPrev.size < Modulus
     /\ buflen <= query.maxBufferSize) =>
    buflen = bufPrev.size

(***************************************************************************)
(* Properties of the collector, checked under SpecGather.                  *)
(***************************************************************************)
\* The last Gather call got as far as taking the hosts' samples.
SampledTick == gPc = "idle" /\ gLast \in {"sample", "read"}

\* The goroutine of `computer` ran to its end and emitted its records.
Reported(computer) == computer \in DOMAIN tasks /\ tasks[computer].pc = "done"

\* C7: in one Gather tick a native failure on one host, while its sample is
\* taken or one of its counters is read, aborts that host's pass only: every
\* other host, whose native calls succeed, has its counters read and its
\* records emitted in the same tick.
C7_OtherHostsStillReport ==
  SampledTick => \A computer \in (DOMAIN hostCounters) \ hostFailed : Reported(computer)

\* The errors the benign set names.
BenignSet ==
  {pdhInvalidData, pdhCalcNegativeDenominator, pdhCalcNegativeValue,
   pdhCstatusInvalidData, pdhCstatusNoInstance, pdhNoData}

\* The goroutine of `computer` has ended, and one of its reads failed with an
\* error of the benign set.
EndedWithBenign(computer) ==
  /\ tasks[computer].pc # "run"
  /\ \E e \in tasks[computer].errs : e.err \in BenignSet

\* Counter i of `computer` is a field of a record emitted in this tick.
FieldEmitted(computer, i) ==
  \E rec \in emitted :
    /\ rec.computer = computer
    /\ rec.measurement = hostCounters[computer].counters[i].measurement
    /\ rec.tags["objectname"] = hostCounters[computer].counters[i].objectName
    /\ rec.timestamp = hostCounters[computer].timestamp
    /\ \E field \in DOMAIN rec.fields :
         /\ field = Replace(sanitizedChars, hostCounters[computer].counters[i].counter)
         /\ rec.fields[field].c = hostCounters[computer].counters[i].counterHandle

\* C8 as stated: when the read of one counter of a host fails with an error
\* of the benign set, every other counter of that host that reads
\* successfully is a field of a record emitted in the same tick.
C8_BenignSkipKeepsOthers ==
  \A computer \in DOMAIN tasks :
    EndedWithBenign(computer) =>
      \A i \in tasks[computer].read : FieldEmitted(computer, i)

\* C8, amended: when the read of one counter of a host fails with an error
\* of the benign set and no read of that host fails with any other error,
\* the host's pass runs to its end, and every counter of that host whose
\* read yields a value for an instance the configuration includes is a
\* field of a record emitted in the same tick.
C8_BenignSkipKeepsOthersUnlessFatal ==
  \A computer \in DOMAIN tasks :
    (EndedWithBenign(computer) /\ \A e \in tasks[computer].errs : e.err \in BenignSet) =>
      /\ tasks[computer].pc = "done"
      /\ \A i \in tasks[computer].kept : FieldEmitted(computer, i)

C8_Witness ==
  \E computer \in DOMAIN tasks :
    /\ EndedWithBenign(computer)
    /\ tasks[computer].pc = "done"
    /\ \E i \in tasks[computer].kept :
         /\ \E e \in tasks[computer].errs : e.i < i
         /\ FieldEmitted(computer, i)

\* The query handles the registry holds.
HeldHandles == {hostCounters[c].query.queryHandle : c \in DOMAIN hostCounters} \ {0}

\* C9: a refresh closes every query the registry holds and discards the
\* registry before the resolver opens a query or registers a counter: while
\* the teardown runs no query appears, the resolver starts from an empty
\* registry and a native side that holds no query and no counter, and every
\* native query is the query of a host of the registry.
C9_TeardownBeforeResolve ==
  /\ gPc = "clean" => pdhQueries \subseteq gOld
  /\ (gPc = "parse" /\ gItem = 1) =>
       (hostCounters = EmptyMap /\ pdhQueries = {} /\ pdhCounters = {})
  /\ pdhQueries = HeldHandles
  /\ \A c \in pdhCounters : c[1] \in pdhQueries

C9_Witness ==
  gPc = "parse" /\ gItem = 1 /\ gOld # {} /\ pdhQueries = {} /\ hostCounters = EmptyMap

\* C10: no counter of a host is read after a refresh until the host's new
\* query has taken a priming sample, the delay has passed, and it has taken
\* a second sample.
C10_PrimedBeforeRead ==
  \A computer \in DOMAIN tasks :
    (tasks[computer].read # {} \/ tasks[computer].errs # {}) =>
      /\ hostCounters[computer].query.queryHandle \in pdhQueries
      /\ pdhSamples[hostCounters[computer].query.queryHandle] = "two"

C10_Witness ==
  /\ gRefreshed
  /\ gPc = "read"
  /\ \E computer \in DOMAIN tasks :
       /\ tasks[computer].read # {}
       /\ pdhSamples[hostCounters[computer].query.queryHandle] = "two"

\* The Gather call in progress runs (or ran) the refresh phase.
InRefreshPhase == gPc \in {"clean", "parse", "prime"}

\* The Gather call in progress went straight to the per-tick sample.
InSampleOnly == gPc \in {"sample", "read"} /\ ~gRefreshed

\* C11 (as stated): after the first call, Gather runs the refresh phase only when the
\* refresh interval is positive and has elapsed since a refresh that succeeded.
C11_RefreshOnlyFirstOrElapsed ==
  (InRefreshPhase /\ gLast # "none") =>
     /\ ~lastRefreshed.isZero
     /\ cfg.CountersRefreshInterval > 0
     /\ lastRefreshed.age > cfg.CountersRefreshInterval

\* C11 (amended): Gather runs the refresh phase exactly when no refresh has succeeded yet
\* (the first call, and every call after refreshes that all ended early) or the interval is
\* positive and has elapsed since the last successful refresh; with an interval of 0, once
\* a refresh has succeeded every later call only samples.
C11_RefreshTrigger ==
  /\ InRefreshPhase =>
       \/ lastRefreshed.isZero
       \/ cfg.CountersRefreshInterval > 0
            /\ lastRefreshed.age > cfg.CountersRefreshInterval
  /\ InSampleOnly =>
       /\ ~lastRefreshed.isZero
       /\ ~(cfg.CountersRefreshInterval > 0
              /\ lastRefreshed.age > cfg.CountersRefreshInterval)
  /\ (gPc \notin {"new", "idle"} /\ gLast = "none") => (InRefreshPhase \/ gRefreshed)
  /\ (cfg.CountersRefreshInterval = 0 /\ ~lastRefreshed.isZero /\ gPc # "idle") =>
       (InSampleOnly \/ gRefreshed)

\* C11 witness: a later Gather call refreshes because the interval has elapsed.
C11_Witness ==
  /\ InRefreshPhase
  /\ gLast # "none"
  /\ ~lastRefreshed.isZero
  /\ lastRefreshed.age > cfg.CountersRefreshInterval

\* A resolution pass has run and no teardown has begun since.
AfterResolution ==
  \/ gPc \in {"parse", "prime", "sample", "read"}
  \/ gPc = "idle" /\ gLast \notin {"none", "clean"}

\* C12: after a resolution pass the registry has one entry per host string, keyed by it;
\* every open native query is held by exactly one entry and no two entries hold the same
\* query; every counter of an entry is registered, under its own handle, on the query of
\* that entry.
C12_OneQueryPerHost ==
  AfterResolution =>
    /\ \A c \in DOMAIN hostCounters : hostCounters[c].computer = c
    /\ \A c, d \in DOMAIN hostCounters :
         (c # d /\ hostCounters[c].query.queryHandle # 0) =>
            hostCounters[c].query.queryHandle # hostCounters[d].query.queryHandle
    /\ pdhQueries = HeldHandles
    /\ \A c \in DOMAIN hostCounters :
         \A k \in 1 .. Len(hostCounters[c].counters) :
            <<hostCounters[c].query.queryHandle, hostCounters[c].counters[k].counterHandle>>
              \in pdhCounters

\* C12 witness: two hosts resolved, each with its own open query and counters on it.
C12_Witness ==
  /\ gPc = "prime"
  /\ Cardinality(HeldHandles) = 2
  /\ \A c \in DOMAIN hostCounters : Len(hostCounters[c].counters) > 1

\* C13: the value-reading step starts one task per entry of the registry and no task
\* anywhere else in Gather, and Gather has returned from that step only with every
\* started task at its end or stopped by its own error.
C13_TasksJoined ==
  /\ gPc \in {"clean", "parse", "prime", "sample"} => tasks = EmptyMap
  /\ gPc = "read" => DOMAIN tasks = DOMAIN hostCounters
  /\ (gPc = "idle" /\ gLast = "read") =>
       /\ DOMAIN tasks = DOMAIN hostCounters
       /\ \A computer \in DOMAIN tasks : tasks[computer].pc \in {"done", "failed"}

\* C13 witness: Gather returned after one host's task failed and another's completed.
C13_Witness ==
  /\ gPc = "idle"
  /\ gLast = "read"
  /\ \E c, d \in DOMAIN tasks : tasks[c].pc = "done" /\ tasks[d].pc = "failed"

\* The counter handles of the values a task has put in its grouping map.
HandlesRead(t) ==
  UNION {{t.fields[g][n].c : n \in DOMAIN t.fields[g]} : g \in DOMAIN t.fields}

\* The counter handles in the counter list of an entry of the registry.
HandlesOf(info) == {info.counters[k].counterHandle : k \in 1 .. Len(info.counters)}

\* C14: while the host tasks run, in whatever order their steps interleave, no two tasks
\* work on the same entry of the registry or on the same query, each task works on the
\* entry it was started for, and the values in a task's grouping map were all read from
\* counters of its own entry.
C14_TasksDisjoint ==
  (gPc = "read" \/ (gPc = "idle" /\ gLast = "read")) =>
    /\ \A c, d \in DOMAIN tasks :
         c # d =>
           /\ tasks[c].hostInfo # tasks[d].hostInfo
           /\ hostCounters[tasks[c].hostInfo].query.queryHandle # 0 =>
                hostCounters[tasks[c].hostInfo].query.queryHandle
                  # hostCounters[tasks[d].hostInfo].query.queryHandle
           /\ HandlesRead(tasks[c]) \cap HandlesRead(tasks[d]) = {}
    /\ \A c \in DOMAIN tasks :
         /\ tasks[c].hostInfo = c
         /\ HandlesRead(tasks[c]) \subseteq HandlesOf(hostCounters[c])

\* C14 witness: two host tasks are both part-way through their counter lists, each with
\* values in its grouping map.
C14_Witness ==
  /\ gPc = "read"
  /\ \E c, d \in DOMAIN tasks :
       /\ c # d
       /\ tasks[c].pc = "run" /\ tasks[c].i > 1 /\ HandlesRead(tasks[c]) # {}
       /\ tasks[d].pc = "run" /\ tasks[d].i > 1 /\ HandlesRead(tasks[d]) # {}

\* C15: a native error whose code name is on the IgnoredErrors list, raised on a host
\* while Gather takes the priming sample, takes the per-tick sample or reads values, is
\* never what Gather returns; an error that Gather returns from these phases is not on
\* the list.
C15_IgnoredNeverReturned ==
  (gPc = "idle" /\ gLast \in {"prime", "sample", "read"}) =>
     ~(IsPdhError(gRet) /\ gRet \in cfg.IgnoredErrors)

\* C16: a step of the resolution pass on a combination of an object without FailOnMissing
\* goes on to the next combination whatever the registration did; on a combination of an
\* object with FailOnMissing a failed registration ends the pass and Gather returns the
\* error, and the pass ends early in no other way.
C16_MissingCounterPolicy ==
  [][(gPc = "parse" /\ gItem <= Len(WorkItems)) =>
       /\ ~WorkItems[gItem].object.FailOnMissing =>
            (gPc' = "parse" /\ gItem' = gItem + 1 /\ gRet' = gRet)
       /\ (WorkItems[gItem].object.FailOnMissing /\ faults' > faults) =>
            (gPc' = "idle" /\ gLast' = "parse" /\ gRet' \notin {nil, "none"})
       /\ gPc' = "idle" =>
            /\ WorkItems[gItem].object.FailOnMissing
            /\ gRet' \notin {nil, "none"}
            /\ \/ faults' > faults
               \/ hostCounters'[WorkItems[gItem].computer].query.queryHandle = 0
       /\ gPc' # "idle" => (gPc' = "parse" /\ gItem' = gItem + 1)]_vars

\* C16 witness: a registration of the first object failed and the pass is at a
\* combination of the second object.
C16_Witness ==
  /\ gPc = "parse"
  /\ Len(cfg.Object) = 2
  /\ gItem <= Len(WorkItems)
  /\ WorkItems[gItem].object = cfg.Object[2]
  /\ hostFailed # {}

\* A configured object name or counter name holds a wildcard.
WildcardConfigured == \E k \in 1 .. Len(cfg.Object) : HasWildcards(cfg.Object[k])

\* C17: with wildcard expansion disabled and a wildcard in a configured object name or
\* counter name, no query is ever opened and no counter is ever registered.
C17_WildcardFailsBeforeHosts ==
  (~cfg.UseWildcardsExpansion /\ WildcardConfigured) =>
     (pdhQueries = {} /\ pdhCounters = {} /\ hostCounters = EmptyMap)

\* C18: once Init has returned, and until the first Gather returns, what Init returned is
\* an error if no object is configured and if a wildcard is configured with wildcard
\* expansion on and localization off.
C18_ConfigErrorsAbortInit ==
  (gPc # "new" /\ gLast = "none") =>
     /\ Len(cfg.Object) = 0 => gRet # nil
     /\ (cfg.UseWildcardsExpansion /\ ~cfg.LocalizeWildcardsExpansion /\ WildcardConfigured)
          => gRet # nil

\* The positions of the counters of the total instance in an entry's counter list.
TotalCounters(info) ==
  {k \in 1 .. Len(info.counters) : info.counters[k].instance = totalInstance}

\* Of the configured combinations `items`, those of a host whose total instance is to be
\* kept: the total instance configured by name, or "*" configured with IncludeTotal.
TotalItems(items, computer) ==
  {n \in 1 .. Len(items) :
     /\ items[n].computer = computer
     /\ \/ items[n].instance = totalInstance
        \/ items[n].instance = star /\ items[n].object.IncludeTotal}

\* The registry against the configured combinations `items`.
TotalSuppression(items) ==
  \A c \in DOMAIN hostCounters :
    /\ TotalItems(items, c) = {} => TotalCounters(hostCounters[c]) = {}
    /\ (gPc = "prime" /\ hostFailed = {}) =>
         Cardinality(TotalCounters(hostCounters[c])) = Cardinality(TotalItems(items, c))

\* C19: with wildcard expansion, a host all of whose combinations have instance "*" and
\* IncludeTotal off never has a counter of the total instance in its list; and when a
\* resolution pass has completed with every registration successful, the list holds one
\* counter of the total instance for every combination with IncludeTotal on or with the
\* total instance configured by name.
C19_TotalSuppression == cfg.UseWildcardsExpansion => TotalSuppression(WorkItems)

\* A host with counters, all combinations having instance "*" and IncludeTotal off.
SuppressedHost(items) ==
  \E c \in DOMAIN hostCounters :
    /\ TotalItems(items, c) = {}
    /\ \A n \in 1 .. Len(items) : items[n].instance = star
    /\ Len(hostCounters[c].counters) >= 2

\* C19 witness: a pass with instance "*" and IncludeTotal off has registered the
\* expansion of every combination of a host.
C19_Witness ==
  /\ cfg.UseWildcardsExpansion
  /\ gPc = "prime"
  /\ hostFailed = {}
  /\ SuppressedHost(WorkItems)

\* The instance names an expansion can return for a configured instance.
ExpandedInstances(instance) ==
  IF instance = star THEN {NativeInstances[k] : k \in 1 .. Len(NativeInstances)}
  ELSE IF instance = emptyInstance THEN {<<>>}
  ELSE {instance}

\* Counter `it` of host c is the expansion result of combination `item` with English names:
\* configured object and counter, expanded instance, and the path synthesized from them.
EnglishResultOf(it, c, item) ==
  /\ item.computer = c
  /\ it.objectName = item.object.ObjectName
  /\ it.counter = CounterName(Replace(sanitizedChars, item.counter), item.object.UseRawValues)
  /\ it.instance \in ExpandedInstances(item.instance)
  /\ it.counterPath =
       formatPath(c, item.object.ObjectName,
                  IF it.instance = <<>> THEN emptyInstance ELSE it.instance, item.counter)

\* The registry against the configured combinations `items`.
EnglishNamesKept(items) ==
  \A c \in DOMAIN hostCounters :
    \A k \in 1 .. Len(hostCounters[c].counters) :
      /\ \E n \in 1 .. Len(items) :
           EnglishResultOf(hostCounters[c].counters[k], c, items[n])
      /\ AfterResolution =>
           /\ <<hostCounters[c].query.queryHandle,
                hostCounters[c].counters[k].counterHandle>> \in pdhCounters
           /\ hostCounters[c].counters[k].counterHandle \in DOMAIN pdhPaths
           /\ pdhPaths[hostCounters[c].counters[k].counterHandle] =
                [path |-> hostCounters[c].counters[k].counterPath,
                 fn |-> "pdhAddEnglishCounter"]

\* C20: with wildcard expansion on and localization off, every counter in a host's list
\* has the configured object and counter name of one of the host's combinations and an
\* instance of its expansion, its path is formatPath of the host, that object, that
\* instance (the six-dash sentinel for none) and that counter, and its handle is the one
\* the native English-name registration of that path on the host's query returned.
C20_EnglishNamesKept ==
  (cfg.UseWildcardsExpansion /\ ~cfg.LocalizeWildcardsExpansion) => EnglishNamesKept(WorkItems)

\* C20 witness: on a system with localized names a pass with localization off has put the
\* expansion results of a remote host and of localhost in their lists.
C20_Witness ==
  /\ cfg.UseWildcardsExpansion
  /\ ~cfg.LocalizeWildcardsExpansion
  /\ cfg.locale # <<>>
  /\ gPc = "prime"
  /\ \A c \in {localhost, remoteHost} :
       c \in DOMAIN hostCounters /\ Len(hostCounters[c].counters) >= 2

(***************************************************************************)
(* Path grammar and sanitization.                                          *)
(***************************************************************************)
\* A string without the path grammar's reserved characters.
NoReserved(s) == \A k \in 1 .. Len(s) : s[k] \notin {"\\", "(", ")"}

\* The call formatted and parsed back four strings free of reserved characters.
RoundTripOfPlain ==
  /\ pOp = "roundTrip"
  /\ NoReserved(pIn.computer)
  /\ NoReserved(pIn.objectName)
  /\ NoReserved(pIn.instance)
  /\ NoReserved(pIn.counter)

\* C21, as stated: for host, object, instance and counter strings without
\* reserved characters, parsing the formatted path succeeds and returns
\* exactly the four strings that were formatted.
C21_RoundTripExact ==
  RoundTripOfPlain =>
    pOut = [ok |-> TRUE, computer |-> pIn.computer, object |-> pIn.objectName,
            instance |-> pIn.instance, counter |-> pIn.counter]

\* C21, amended: for host, object, instance and counter strings without
\* reserved characters, parsing the formatted path succeeds and returns the
\* object and the counter as formatted, the host as formatted except that
\* "localhost" comes back empty, and the instance as formatted except that
\* the six-dash sentinel comes back empty.
C21_RoundTrip ==
  RoundTripOfPlain =>
    pOut = [ok |-> TRUE,
            computer |-> IF pIn.computer = localhost THEN <<>> ELSE pIn.computer,
            object |-> pIn.objectName,
            instance |-> IF pIn.instance = emptyInstance THEN <<>> ELSE pIn.instance,
            counter |-> pIn.counter]

C21_Witness ==
  /\ RoundTripOfPlain
  /\ pIn.computer = remoteHost
  /\ pIn.instance = <<"a">>
  /\ pIn.objectName = <<"M", "e", "m">>
  /\ pOut.ok
  /\ pOut.instance = <<"a">>

\* How often the character ch occurs in s.
Count(s, ch) == Cardinality({k \in 1 .. Len(s) : s[k] = ch})

HasSuffix(s, suffix) ==
  /\ Len(suffix) <= Len(s)
  /\ SubSeq(s, Len(s) - Len(suffix) + 1, Len(s)) = suffix

NoParens(s) == Count(s, "(") = 0 /\ Count(s, ")") = 0

\* s holds one "(" and one ")", in this order, with inner between them.
OnePairEnclosing(s, inner) ==
  /\ Count(s, "(") = 1
  /\ Count(s, ")") = 1
  /\ LET l == CHOOSE k \in 1 .. Len(s) : s[k] = "("
         r == CHOOSE k \in 1 .. Len(s) : s[k] = ")"
     IN l < r /\ SubSeq(s, l + 1, r - 1) = inner

\* The formatted path ends with \object\counter, or \object(instance)\counter.
ShapeOfPath ==
  IF pIn.instance = emptyInstance
    THEN HasSuffix(pOut, <<"\\">> \o pIn.objectName \o <<"\\">> \o pIn.counter)
    ELSE HasSuffix(pOut, <<"\\">> \o pIn.objectName \o <<"(">> \o pIn.instance
                           \o <<")", "\\">> \o pIn.counter)

\* C22, as stated: with the six-dash sentinel as instance the formatted path
\* holds no parenthesis when object and counter hold none, and has the shape
\* \object\counter; with any other instance it holds exactly one pair of
\* parentheses, which encloses the instance, in the shape
\* \object(instance)\counter.
C22_ParenthesesAnyInput ==
  pOp = "formatPath" =>
    /\ ShapeOfPath
    /\ IF pIn.instance = emptyInstance
         THEN NoParens(pIn.objectName) /\ NoParens(pIn.counter) => NoParens(pOut)
         ELSE OnePairEnclosing(pOut, pIn.instance)

\* C22, amended: the formatted path always ends with \object\counter for the
\* six-dash sentinel and with \object(instance)\counter for any other
\* instance; when host, object, instance and counter hold no parenthesis, it
\* holds no parenthesis for the sentinel and exactly one pair, enclosing the
\* instance, for any other instance.
C22_Parentheses ==
  pOp = "formatPath" =>
    /\ ShapeOfPath
    /\ NoParens(pIn.computer) /\ NoParens(pIn.objectName) /\ NoParens(pIn.instance)
         /\ NoParens(pIn.counter) =>
           IF pIn.instance = emptyInstance
             THEN NoParens(pOut)
             ELSE OnePairEnclosing(pOut, pIn.instance)

C22_WitnessSentinel ==
  /\ pOp = "formatPath"
  /\ pIn.instance = emptyInstance
  /\ pIn.computer = remoteHost
  /\ NoParens(pIn.objectName) /\ NoParens(pIn.counter)
  /\ NoParens(pOut)

C22_Witness ==
  /\ pOp = "formatPath"
  /\ pIn.instance = <<"a", "b">>
  /\ NoParens(pIn.computer) /\ NoParens(pIn.objectName) /\ NoParens(pIn.counter)
  /\ OnePairEnclosing(pOut, <<"a", "b">>)

\* The positions of the backslashes of s that lie outside every parenthesis
\* pair, parentheses being matched from the end of s.
TopLevel(s) ==
  {k \in 1 .. Len(s) :
     /\ s[k] = "\\"
     /\ Count(SubSeq(s, k + 1, Len(s)), ")") = Count(SubSeq(s, k + 1, Len(s)), "(")}

Last(S) == CHOOSE k \in S : \A j \in S : j <= k

\* Fewer than two top-level backslashes: no object segment.
NoObjectSegment(s) == Cardinality(TopLevel(s)) < 2

\* A third top-level backslash from the right opens a host prefix; the
\* prefix is well formed when it is the path's leading double backslash
\* followed by a host name that is not empty.
BadHostPrefix(s) ==
  /\ Cardinality(TopLevel(s)) >= 3
  /\ LET lc == Last(TopLevel(s))
         lo == Last(TopLevel(s) \ {lc})
         hb == Last(TopLevel(s) \ {lc, lo})
     IN ~(hb = 2 /\ s[1] = "\\" /\ lo > hb + 1)

\* The same with the third backslash only required to be the second
\* character of the path.
BadHostBorder(s) ==
  /\ Cardinality(TopLevel(s)) >= 3
  /\ LET lc == Last(TopLevel(s))
         lo == Last(TopLevel(s) \ {lc})
         hb == Last(TopLevel(s) \ {lc, lo})
     IN ~(hb = 2 /\ lo > hb + 1)

\* Exactly one of the two is found: a closing parenthesis at depth 0 left of
\* the counter's backslash, and an opening parenthesis that closes depth 1
\* between the object's and the counter's backslash.
OneInstanceParen(s) ==
  /\ Cardinality(TopLevel(s)) >= 2
  /\ LET lc == Last(TopLevel(s))
         lo == Last(TopLevel(s) \ {lc})
         closing == \E k \in 1 .. lc - 1 :
                      /\ s[k] = ")"
                      /\ Count(SubSeq(s, k + 1, Len(s)), ")")
                           = Count(SubSeq(s, k + 1, Len(s)), "(")
         opening == \E k \in lo + 1 .. lc - 1 :
                      /\ s[k] = "("
                      /\ Count(SubSeq(s, k + 1, Len(s)), ")")
                           = Count(SubSeq(s, k + 1, Len(s)), "(") + 1
     IN closing # opening

\* C23: parsing fails, without components, when the path has fewer than two
\* top-level backslashes, when its host prefix is empty or lacks the leading
\* double backslash, or when only one of the instance's parentheses is
\* found; in every other case it returns components without error.
C23_ParseErrors ==
  pOp = "extract" =>
    /\ ~pOut.ok <=> \/ NoObjectSegment(pIn.counterPath)
                    \/ BadHostPrefix(pIn.counterPath)
                    \/ OneInstanceParen(pIn.counterPath)
    /\ ~pOut.ok => pOut = ParseError

\* What the code does instead: the host prefix is accepted whenever its
\* closing backslash is the second character of the path.
C23_ParseErrorsAsCoded ==
  pOp = "extract" =>
    /\ ~pOut.ok <=> \/ NoObjectSegment(pIn.counterPath)
                    \/ BadHostBorder(pIn.counterPath)
                    \/ OneInstanceParen(pIn.counterPath)
    /\ ~pOut.ok => pOut = ParseError

\* What a sanitized name must not contain: the path grammar's separators and
\* the per-second suffixes.
Unsanitized == {<<"\\">>, <<"(">>, <<")">>, <<"/", "s", "e", "c">>, <<"/", "S", "e", "c">>}

\* C24: the counter field name and the measurement name stored on a counter
\* made by newCounter contain no backslash, no opening or closing
\* parenthesis and no per-second suffix ("/sec", "/Sec").
C24_SanitizedNames ==
  pOp = "newCounter" =>
    \A bad \in Unsanitized :
      ~Contains(pOut.counter, bad) /\ ~Contains(pOut.measurement, bad)

\* What the code does with parentheses: sanitizedChars has no pair for
\* them, so every parenthesis of a name is still in the sanitized name.
C24_ParenthesesKept ==
  pOp = "newCounter" =>
    \A paren \in {"(", ")"} :
      /\ Count(pOut.counter, paren) = Count(pIn.counterName, paren)
      /\ Count(pOut.measurement, paren) = Count(pIn.measurement, paren)

\* What the sanitization rule makes of one token of a name.
TokenRule(t) ==
  CASE t = <<"/", "s", "e", "c">> -> <<"_", "p", "e", "r", "s", "e", "c">>
    [] t = <<"/", "S", "e", "c">> -> <<"_", "p", "e", "r", "s", "e", "c">>
    [] t = <<"%">> -> <<"P", "e", "r", "c", "e", "n", "t">>
    [] t = <<" ">> -> <<"_">>
    [] t = <<"\\">> -> <<>>
    [] OTHER -> t

RawIf(useRawValue) == IF useRawValue THEN <<"_", "R", "a", "w">> ELSE <<>>

PercentProcessorTime ==
  <<"P", "e", "r", "c", "e", "n", "t", "_", "P", "r", "o", "c", "e", "s", "s", "o", "r",
    "_", "T", "i", "m", "e">>
DiskReadBytesPersec ==
  <<"D", "i", "s", "k", "_", "R", "e", "a", "d", "_", "B", "y", "t", "e", "s", "_", "p",
    "e", "r", "s", "e", "c">>

ValidStatuses == {pdhCstatusValidData, pdhCstatusNewData}

\* The scalar read called the native function, which succeeded with a valid
\* sample status.
GoodSample ==
  pOut.calls # <<>> /\ pIn.ret = errorSuccess /\ pIn.cstatus \in ValidStatuses

\* A scalar read returns the sample's value exactly on a good sample, and
\* otherwise 0 with an error.
ScalarValueOnlyWhenGood ==
  /\ pOut.err = nil <=> GoodSample
  /\ GoodSample => pOut.value = IF pIn.raw THEN "FirstValue" ELSE "DoubleValue"
  /\ ~GoodSample => pOut.value = 0

\* The positions of the items with a valid status.
ValidPositions(items) == {k \in 1 .. Len(items) : items[k].CStatus \in ValidStatuses}

\* values holds exactly the items at the valid positions, in their order.
ExactlyTheValid(items, values) ==
  /\ Len(values) = Cardinality(ValidPositions(items))
  /\ \A k \in ValidPositions(items) :
       LET j == Cardinality({i \in ValidPositions(items) : i <= k}) IN
       /\ values[j].value = items[k].value
       /\ values[j].instanceName = items[k].instanceName

\* An array read that succeeds returns exactly the valid items, in order;
\* one that fails returns none.
ArrayExactlyTheValid ==
  IF pOut.err = nil THEN ExactlyTheValid(pIn.items, pOut.values) ELSE pOut.values = <<>>

\* C26, as stated: a scalar read returns a value only when the native call
\* succeeds with sample status "valid data" or "new data", and otherwise
\* returns an error that is the native code or the sample status; an array
\* read returns exactly the entries with one of these two statuses, in the
\* order the native side wrote them.
C26_ValidSamplesNativeError ==
  /\ pOp = "scalar" =>
       /\ ScalarValueOnlyWhenGood
       /\ ~GoodSample => pOut.err = IF pIn.ret # errorSuccess THEN pIn.ret ELSE pIn.cstatus
  /\ pOp = "array" => ArrayExactlyTheValid

\* C26, amended: as stated, except that a raw scalar read on a query that is
\* not open calls no native function and returns the "uninitialized query"
\* error.
C26_ValidSamplesOnly ==
  /\ pOp = "scalar" =>
       /\ ScalarValueOnlyWhenGood
       /\ ~GoodSample =>
            pOut.err = IF pIn.raw /\ pIn.queryHandle = 0 THEN errUninitializedQuery
                       ELSE IF pIn.ret # errorSuccess THEN pIn.ret
                       ELSE pIn.cstatus
       /\ pOut.calls = <<>> <=> pIn.raw /\ pIn.queryHandle = 0
  /\ pOp = "array" => ArrayExactlyTheValid

C26_Witness ==
  /\ pOp = "array"
  /\ pIn.c = pdhMoreData
  /\ Len(pIn.items) = 2
  /\ pIn.items[1].CStatus = pdhCstatusInvalidData
  /\ pIn.items[2].CStatus = pdhCstatusNewData
  /\ pOut.err = nil
  /\ pOut.values = <<[instanceName |-> 2, value |-> 2]>>

C26_WitnessScalar ==
  /\ pOp = "scalar"
  /\ pIn.ret = errorSuccess
  /\ pIn.cstatus = pdhCstatusInvalidData
  /\ pOut.err = pdhCstatusInvalidData
  /\ pOut.value = 0

\* C27: the retry protocol is the same in the four buffer-sized calls: from
\* the buffer size a call has reached, under the same maximum and the same
\* native status and reported size, each of the four calls makes the same
\* next step (the same next buffer size, or the same return: success, the
\* native error, or buffer limit reached), so that the four make the same
\* sequence of buffer sizes and end alike.
C27_SameProtocol ==
  bufPc = "loop" =>
    \A call \in BufferedCalls, ret \in PdhBufRets, size \in NativeSizes \cup {buflen} :
      LoopOf(call, buflen, query.maxBufferSize, ret, size)
        = LoopOf(bufCall, buflen, query.maxBufferSize, ret, size)

C27_Witness ==
  /\ bufPc = "loop"
  /\ bufCall = "GetRawCounterArray"
  /\ bufN >= 2
  /\ bufPrev = [len |-> 6000, size |-> 3000]
  /\ buflen = 12000

(***************************************************************************)
(* Grouping and emission.                                                  *)
(***************************************************************************)
\* The records emitted for a host in this tick.
RecordsOf(computer) == {r \in emitted : r.computer = computer}

\* r is a record of the group `key`.
OfGroup(r, key) ==
  /\ r.measurement = key.name
  /\ r.tags["objectname"] = key.objectName
  /\ IF Len(key.instance) > 0
       THEN "instance" \in DOMAIN r.tags /\ r.tags["instance"] = key.instance
       ELSE "instance" \notin DOMAIN r.tags

\* The positions of the log at which `field` of group `key` was written.
WritesTo(log, key, field) ==
  {k \in 1 .. Len(log) : log[k].group = key /\ log[k].field = field}

\* The fields of r are those written under `key`, each with the value
\* written last.
LastValues(r, log, key) ==
  /\ DOMAIN r.fields = {log[k].field : k \in {j \in 1 .. Len(log) : log[j].group = key}}
  /\ \A field \in DOMAIN r.fields :
       \E k \in WritesTo(log, key, field) :
         /\ \A j \in WritesTo(log, key, field) : j <= k
         /\ r.fields[field] = log[k].value

\* One record per group that received a value, and no other record; each
\* record with the last values and the host's sample timestamp of this tick.
GroupedAndEmitted(t, info) ==
  /\ \A k \in 1 .. Len(t.log) :
       Cardinality({r \in RecordsOf(t.hostInfo) : OfGroup(r, t.log[k].group)}) = 1
  /\ \A r \in RecordsOf(t.hostInfo) :
       \E k \in 1 .. Len(t.log) :
         /\ OfGroup(r, t.log[k].group)
         /\ LastValues(r, t.log, t.log[k].group)
         /\ r.timestamp = info.timestamp
         /\ r.timestamp.call = "this"

\* C28, as stated: after a tick, for each host one record has been emitted
\* per group (measurement, instance, object) that received a value; counters
\* of one group are fields of its record, a later value under the same field
\* name replaces the earlier one, and the timestamp is the host's sample
\* timestamp of this tick.
C28_GroupingEveryHost ==
  gPc = "idle" /\ gLast = "read" =>
    \A computer \in DOMAIN tasks :
      GroupedAndEmitted(tasks[computer], hostCounters[tasks[computer].hostInfo])

\* C28, amended: the same for each host whose pass over its counters ran to
\* its end (no read failed with an error outside the benign set).
C28_Grouping ==
  \A computer \in DOMAIN tasks :
    tasks[computer].pc = "done" =>
      GroupedAndEmitted(tasks[computer], hostCounters[tasks[computer].hostInfo])

\* A host's pass wrote the same field of one group twice, and another group
\* as well, and its records are out.
C28_Witness ==
  \E computer \in DOMAIN tasks :
    /\ tasks[computer].pc = "done"
    /\ Len(tasks[computer].log) = 2
    /\ tasks[computer].log[1].group = tasks[computer].log[2].group
    /\ tasks[computer].log[1].field = tasks[computer].log[2].field
    /\ tasks[computer].log[1].value # tasks[computer].log[2].value
    /\ Cardinality(RecordsOf(computer)) = 1

\* A host's pass wrote two fields of one group.
C28_WitnessTwoFields ==
  \E computer \in DOMAIN tasks :
    /\ tasks[computer].pc = "done"
    /\ \E r \in RecordsOf(computer) : Cardinality(DOMAIN r.fields) = 2

\* A host's pass wrote two groups.
C28_WitnessTwoGroups ==
  \E computer \in DOMAIN tasks :
    /\ tasks[computer].pc = "done"
    /\ Cardinality(RecordsOf(computer)) = 2

(***************************************************************************)
(* End to end: an object without instances.                                *)
(***************************************************************************)
MemoryConfigured == cfg \in {MemoryConfig(FALSE), MemoryConfig(TRUE)}

MemoryPath == <<"\\">> \o Memory \o <<"\\">> \o AvailableBytes

\* The resolution pass of this Gather call is over and no native call has
\* failed so far.
ResolvedUndisturbed ==
  /\ gPc \in {"prime", "sample", "read"}
  /\ faults = 0

\* C29: with the object Memory, Instances ["------"], Counters
\* ["Available Bytes"] on the local host, a resolution pass (on a native side
\* that knows the counter) leaves exactly one counter, with the path
\* \Memory\Available Bytes, and every record emitted carries the tag
\* "objectname" and no tag "instance".
C29_MemoryEndToEnd ==
  MemoryConfigured =>
    /\ ResolvedUndisturbed =>
         /\ DOMAIN hostCounters = {localhost}
         /\ Len(hostCounters[localhost].counters) = 1
         /\ hostCounters[localhost].counters[1].counterPath = MemoryPath
    /\ \A r \in emitted :
         /\ "objectname" \in DOMAIN r.tags
         /\ r.tags["objectname"] = Memory
         /\ "instance" \notin DOMAIN r.tags

C29_Witness ==
  /\ cfg = MemoryConfig(FALSE)
  /\ faults = 0
  /\ localhost \in DOMAIN hostCounters
  /\ Len(hostCounters[localhost].counters) = 1
  /\ hostCounters[localhost].counters[1].counterPath = MemoryPath
  /\ \E r \in emitted :
       /\ r.tags["objectname"] = Memory
       /\ "instance" \notin DOMAIN r.tags
       /\ DOMAIN r.fields
            = {<<"A", "v", "a", "i", "l", "a", "b", "l", "e", "_", "B", "y", "t", "e", "s">>}

(***************************************************************************)
(* The sample phase.                                                       *)
(***************************************************************************)
\* The hosts sampled in the running (or last) Gather call.
SampledHosts == {c \in DOMAIN hostCounters : hostCounters[c].timestamp.call = "this"}

\* C30: a host's sample is taken with collectDataWithTime exactly when
\* UsePerfCounterTime is set and the query reports Vista-or-newer support,
\* and then the timestamp of its records is the sample time the operating
\* system reported; otherwise the sample is taken with collectData and the
\* timestamp is the wall-clock time; collectDataWithTime is never called on
\* a query without that support.
C30_TimestampSelection ==
  /\ \A c \in SampledHosts :
       /\ hostCounters[c].timestamp.by = "collectDataWithTime"
            <=> cfg.UsePerfCounterTime /\ cfg.vista
       /\ hostCounters[c].timestamp.by = "collectData"
            <=> ~(cfg.UsePerfCounterTime /\ cfg.vista)
       /\ ~cfg.vista => hostCounters[c].timestamp.by # "collectDataWithTime"
  /\ \A r \in emitted :
       /\ r.timestamp.call = "this"
       /\ r.timestamp.src = IF cfg.UsePerfCounterTime /\ cfg.vista THEN "pdh" ELSE "now"

\* UsePerfCounterTime set on a query without support: sampled with
\* collectData, its record stamped with the wall clock.
C30_Witness ==
  /\ cfg.UsePerfCounterTime
  /\ ~cfg.vista
  /\ \E c \in SampledHosts : hostCounters[c].timestamp.by = "collectData"
  /\ \E r \in emitted : r.timestamp.src = "now"

C30_WitnessTimed ==
  /\ cfg.UsePerfCounterTime
  /\ cfg.vista
  /\ \E c \in SampledHosts : hostCounters[c].timestamp.by = "collectDataWithTime"
  /\ \E r \in emitted : r.timestamp.src = "pdh"

(***************************************************************************)
(* Nested parentheses in a path.                                           *)
(***************************************************************************)
\* The depth of position k of s, parentheses being counted from the end.
DepthAfter(s, k) ==
  Count(SubSeq(s, k + 1, Len(s)), ")") - Count(SubSeq(s, k + 1, Len(s)), "(")

\* The opening parenthesis that matches a closing one at position r.
MatchOf(s, r) ==
  Last({k \in 1 .. r - 1 : s[k] = "(" /\ DepthAfter(s, k) = DepthAfter(s, r) + 1})

\* The parse of s took the components the scan from the end prescribes: the
\* counter after the last backslash at depth 0 and, when a parenthesized
\* group ends right before that backslash, the content of that group as
\* instance and what lies between the preceding backslash at depth 0 and the
\* group as object.
ParsedByDepth(s, out) ==
  LET lc == Last(TopLevel(s))
      lo == Last(TopLevel(s) \ {lc})
  IN /\ out.counter = SubSeq(s, lc + 1, Len(s))
     /\ (lc > 1 /\ s[lc - 1] = ")") =>
          /\ MatchOf(s, lc - 1) > lo
          /\ out.instance = SubSeq(s, MatchOf(s, lc - 1) + 1, lc - 2)
          /\ out.object = SubSeq(s, lo + 1, MatchOf(s, lc - 1) - 1)

\* C31: a path that parses is parsed by nesting depth counted from the end:
\* the counter is everything after the last backslash at depth 0, the
\* instance is the whole content of the outermost parenthesized group right
\* before that backslash, the object is the segment between the preceding
\* backslash at depth 0 and that group; and a path formatted from plain host,
\* object and counter and an instance with nested parentheses or backslashes
\* inside them (such as \Obj(a(b)\c)\Ctr) parses to these.
C31_NestedParentheses ==
  /\ (pOp = "extract" /\ pOut.ok) => ParsedByDepth(pIn.counterPath, pOut)
  /\ (pOp = "extract" /\ pIn.counterPath = NestedPath) =>
       pOut = [ok |-> TRUE, computer |-> <<>>, object |-> <<"O", "b", "j">>,
               instance |-> <<"a", "(", "b", ")", "\\", "c">>,
               counter |-> <<"C", "t", "r">>]
  /\ (/\ pOp = "roundTrip"
      /\ pIn.instance \in NestedInstances
      /\ NoReserved(pIn.computer)
      /\ NoReserved(pIn.objectName)
      /\ NoReserved(pIn.counter)) =>
       /\ pOut.ok
       /\ pOut.object = pIn.objectName
       /\ pOut.instance = pIn.instance
       /\ pOut.counter = pIn.counter

C31_Witness ==
  /\ pOp = "extract"
  /\ pIn.counterPath = <<"\\", "\\", "h">> \o NestedPath
  /\ pOut.ok
  /\ pOut.computer = <<"h">>
  /\ pOut.instance = <<"a", "(", "b", ")", "\\", "c">>

(***************************************************************************)
(* Array reads of a multiple-instance identifier.                          *)
(***************************************************************************)
\* The positions of the log at which item k of the counter c was written.
WritesOfItem(log, c, k) ==
  {j \in 1 .. Len(log) : log[j].value = [c |-> c, k |-> k]}

\* The items of metric whose returned name is a prefix of the configured
\* instance.
PrefixItems(metric) ==
  {k \in DOMAIN pdhArrayItems(metric.counterPath, metric.counterHandle, FALSE) :
     HasPrefix(metric.instance,
               pdhArrayItems(metric.counterPath, metric.counterHandle, FALSE)[k].instanceName)}

\* Every written item of metric is recorded under the configured instance
\* when its returned name is a prefix of it, and under the returned name
\* otherwise.
RecordedUnderConfigured(t, metric, items) ==
  \A k \in DOMAIN items :
    \A j \in WritesOfItem(t.log, metric.counterHandle, k) :
      t.log[j].group =
        GroupOf(metric, IF k \in PrefixItems(metric) THEN metric.instance
                        ELSE items[k].instanceName)

\* The items with a prefix name were all written, into one group, and the
\* record of that group carries the value of the last of them.
CollapsedToLast(t, metric) ==
  /\ \A k \in PrefixItems(metric) : WritesOfItem(t.log, metric.counterHandle, k) # {}
  /\ \E r \in RecordsOf(t.hostInfo) :
       /\ OfGroup(r, GroupOf(metric, metric.instance))
       /\ r.fields[Replace(sanitizedChars, metric.counter)] =
            [c |-> metric.counterHandle, k |-> Last(PrefixItems(metric))]

\* C32: without wildcard expansion, a value whose returned instance name is
\* a prefix of a configured instance containing '#' is recorded under the
\* configured instance; the returned instances with such names collapse into
\* one group, whose record keeps the value written last (every item being
\* returned with a valid status when no native call misbehaved).
C32_InstanceRewrite ==
  ~cfg.UseWildcardsExpansion =>
    \A computer \in DOMAIN tasks :
      \A n \in 1 .. Len(hostCounters[tasks[computer].hostInfo].counters) :
        Contains(hostCounters[tasks[computer].hostInfo].counters[n].instance, <<"#">>) =>
          /\ RecordedUnderConfigured(tasks[computer],
               hostCounters[tasks[computer].hostInfo].counters[n],
               pdhArrayItems(hostCounters[tasks[computer].hostInfo].counters[n].counterPath,
                             hostCounters[tasks[computer].hostInfo].counters[n].counterHandle,
                             FALSE))
          /\ (tasks[computer].pc = "done" /\ faults = 0) =>
               CollapsedToLast(tasks[computer],
                               hostCounters[tasks[computer].hostInfo].counters[n])

\* A pass over w#1 is done: the native side returned w, x and w#, two values
\* were written, both under w#1, and the one record carries the second.
C32_Witness ==
  /\ cfg = HashConfig
  /\ \E computer \in DOMAIN tasks :
       /\ tasks[computer].pc = "done"
       /\ Len(tasks[computer].log) = 2
       /\ tasks[computer].log[1].group.instance = ProcessInstance
       /\ tasks[computer].log[2].group.instance = ProcessInstance
       /\ tasks[computer].log[1].value.k = 1
       /\ tasks[computer].log[2].value.k = 3
       /\ \E r \in RecordsOf(computer) :
            /\ Cardinality(RecordsOf(computer)) = 1
            /\ r.tags["instance"] = ProcessInstance
            /\ \A f \in DOMAIN r.fields : r.fields[f].k = 3

(***************************************************************************)
(* The queries of the registry after a resolution pass.                    *)
(***************************************************************************)
\* The resolution pass of a Gather call ran to its end (parseConfig returned
\* nil) and no teardown has begun since.
ResolutionPassed ==
  \/ gPc \in {"prime", "sample", "read"}
  \/ gPc = "idle" /\ gLast \in {"prime", "sample", "read"}

\* C34: after a resolution pass every entry of the host registry holds an
\* open query (also when opening a host's query failed and the missing-counter
\* policy ignored the error), so that priming, sampling and the next teardown
\* never work on an unopened query.
C34_RegistryQueriesOpen ==
  ResolutionPassed =>
    \A computer \in DOMAIN hostCounters : hostCounters[computer].query.queryHandle # 0

(***************************************************************************)
(* Recovery after a failed refresh.                                        *)
(***************************************************************************)
\* The registry holds an entry whose query is closed.
ClosedInRegistry ==
  \E computer \in DOMAIN hostCounters : hostCounters[computer].query.queryHandle = 0

\* A teardown is under way that has yet to close an entry whose query is
\* closed already.
TeardownBlocked ==
  /\ gPc = "clean"
  /\ \E computer \in gTodo : hostCounters[computer].query.queryHandle = 0

\* C33: a Gather call during which every native call succeeds (hostFailed is
\* empty when it returns) has recovered from whatever failed in the refresh
\* phase of an earlier call: it does not return the uninitialized-query
\* sentinel.
C33_RecoversAfterFailedRefresh ==
  (gPc = "idle" /\ gLast # "none" /\ hostFailed = {}) => gRet # errUninitializedQuery

\* With a closed query in the registry between two Gather calls the
\* collector is stuck: the next call begins a teardown, which is blocked, and
\* a blocked teardown ends with an error and the closed query still in the
\* registry, whatever the native side does.
ClosedQueryBlocksEveryGather ==
  [][/\ (gPc = "idle" /\ ClosedInRegistry /\ gPc' # "idle") => TeardownBlocked'
     /\ TeardownBlocked =>
          \/ TeardownBlocked'
          \/ gPc' = "idle" /\ gRet' # nil /\ ClosedInRegistry']_vars

(***************************************************************************)
(* Buffer sizes in the width of buflen.                                    *)
(***************************************************************************)
\* C35: every attempt of a buffer-sized call is made with a size of at least
\* the initial one and at most the maximum, the size after an attempt is
\* strictly larger than the size of that attempt, and the doubling never
\* wraps around to a smaller size or to zero (an empty buffer, whose first
\* element the call takes the address of).
C35_SizesGrowWithoutWrap ==
  qOp \in BufferedCalls =>
    /\ bufN >= 1 =>
         (bufPrev.len >= initialBufferSize /\ bufPrev.len <= query.maxBufferSize)
    /\ (bufPc = "loop" /\ bufN >= 1) => buflen > bufPrev.len
    /\ qErr # panicIndexOutOfRange

(***************************************************************************)
(* The frame of the last-refreshed time.                                   *)
(***************************************************************************)
\* Every host of the registry has an open query that has taken a sample.
EveryHostPrimed ==
  \A computer \in DOMAIN hostCounters :
    /\ hostCounters[computer].query.queryHandle \in DOMAIN pdhSamples
    /\ pdhSamples[hostCounters[computer].query.queryHandle] # "none"

\* No host has taken its per-tick sample in the Gather call under way.
NotSampled ==
  /\ tasks = EmptyMap
  /\ emitted = {}
  /\ \A computer \in DOMAIN hostCounters : hostCounters[computer].timestamp.call # "this"

\* C36: the last-refreshed time is assigned only at the end of a refresh
\* phase whose teardown and resolution are over and in which every host took
\* its priming sample (between calls it only ages); a Gather call that
\* returns from its refresh phase, with an error or with a priming error the
\* ignore-list suppressed, has taken no per-tick sample and leaves the
\* last-refreshed time as it was, and the next call enters the refresh phase.
C36_LastRefreshedFrame ==
  [][/\ lastRefreshed' # lastRefreshed =>
          \/ /\ gPc = "idle" /\ gPc' = "idle"
             /\ lastRefreshed' = [lastRefreshed EXCEPT !.age = @ + 1]
          \/ /\ gPc = "prime" /\ gTodo = {} /\ gPc' = "sample"
             /\ EveryHostPrimed
     /\ (InRefreshPhase /\ gPc' = "idle") =>
          /\ lastRefreshed' = lastRefreshed
          /\ NotSampled'
          /\ NeedsRefresh(lastRefreshed', cfg.CountersRefreshInterval)
     /\ (gPc = "idle" /\ gLast \in {"clean", "parse", "prime"} /\ gPc' # "idle") =>
          gPc' = "clean"]_vars

\* A refresh ended with a priming error the ignore-list suppressed: Gather
\* returned nil, and the last-refreshed time is still unset.
C36_Witness ==
  /\ gPc = "idle"
  /\ gLast = "prime"
  /\ gRet = nil
  /\ faults > 0
  /\ lastRefreshed.isZero
  /\ NotSampled

(***************************************************************************)
(* Open queries and the registry.                                          *)
(***************************************************************************)
\* C37: no open query is dropped without being closed.  An entry leaves the
\* registry only in the step that clears it, at the end of a teardown, and
\* only with its query closed; a teardown that returns an error leaves the
\* entries of the registry in place; and every open native query is held by
\* an entry of the registry.
C37_NoOpenQueryDropped ==
  [][/\ \A computer \in DOMAIN hostCounters \ DOMAIN hostCounters' :
          /\ gPc = "clean" /\ gTodo = {}
          /\ hostCounters[computer].query.queryHandle = 0
     /\ (gPc = "clean" /\ gPc' = "idle") => DOMAIN hostCounters' = DOMAIN hostCounters
     /\ pdhQueries' \subseteq {hostCounters'[computer].query.queryHandle :
                                computer \in DOMAIN hostCounters'}]_vars

\* A teardown closed the query of one host and failed to close that of
\* another: Gather returned the error, both entries are in the registry and
\* the open query is still held.
C37_Witness ==
  /\ gPc = "idle"
  /\ gLast = "clean"
  /\ IsPdhError(gRet)
  /\ \E c, d \in DOMAIN hostCounters :
       /\ hostCounters[c].query.queryHandle = 0
       /\ hostCounters[d].query.queryHandle \in pdhQueries

(***************************************************************************)
(* Failing Open and Close.                                                 *)
(***************************************************************************)
\* C38: a failure leaves the lifecycle state as it was.  A failing Close
\* leaves the query with the handle it had; a failing Open on a closed query
\* leaves it closed and acquires nothing; an Open on an open query that
\* returns after its implicit close failed (pdhCloseQuery is the one native
\* call it made) returns an error, has acquired no native context and
\* leaves the old handle in place.
C38_FailureKeepsState ==
  [][/\ (qOp' = "Close" /\ qErr' # nil) =>
          (query' = query /\ pdhQueries' = pdhQueries)
     /\ (qOp' = "Open" /\ qErr' # nil /\ query.queryHandle = 0) =>
          (query' = query /\ pdhQueries' = pdhQueries)
     /\ (qOp' = "Open" /\ query.queryHandle # 0 /\ qCalls' = <<"pdhCloseQuery">>) =>
          (qErr' # nil /\ query' = query /\ pdhQueries' = pdhQueries)
     /\ (qOp' = "Open" /\ qErr' # nil /\ query.queryHandle # 0) =>
          (query' = query \/ qCalls' = <<"pdhCloseQuery", "pdhOpenQuery">>)]_vars

\* An Open on an open query has returned the error of its implicit close;
\* the query holds the handle it had, which is still open on the native side.
C38_Witness ==
  /\ qOp = "Open"
  /\ qPre # 0
  /\ IsPdhError(qErr)
  /\ qCalls = <<"pdhCloseQuery">>
  /\ query.queryHandle = qPre
  /\ qPre \in pdhQueries

(***************************************************************************)
(* Errors of the value-reading tasks.                                      *)
(***************************************************************************)
\* The errors outside the benign set that the reads of task t returned.
FatalReads(t) == {e \in t.errs : ~isKnownCounterDataError(e.err)}

\* C39: a Gather call that got as far as the value-reading step returns nil
\* whatever the tasks returned, and a task one of whose reads returned an
\* error outside the benign set has stopped there and has emitted no record
\* in this tick, also none for the counters it had read before.
C39_TaskErrorsNotReported ==
  /\ (gPc = "idle" /\ gLast = "read") => gRet = nil
  /\ \A computer \in DOMAIN tasks :
       FatalReads(tasks[computer]) # {} =>
         /\ tasks[computer].pc = "failed"
         /\ RecordsOf(tasks[computer].hostInfo) = {}

\* Gather has returned nil although a task ended with an error that is
\* neither benign nor on the ignore-list, after it had read a counter; that
\* host has no record, another host has.
C39_Witness ==
  /\ gPc = "idle"
  /\ gLast = "read"
  /\ gRet = nil
  /\ \E computer \in DOMAIN tasks :
       /\ tasks[computer].pc = "failed"
       /\ checkError(tasks[computer].err) # nil
       /\ ~isKnownCounterDataError(tasks[computer].err)
       /\ tasks[computer].read # {}
       /\ tasks[computer].log # <<>>
       /\ RecordsOf(computer) = {}
  /\ emitted # {}

=============================================================================
